---- MODULE Spec2Model ----
(***************************************************************************)
(* Financial-document ingestion and analysis (Elimentary / FinanceAI).     *)
(* The module models the extraction -> validation -> metrics -> analysis   *)
(* pipeline of the server: the pure engines (ratio computation, validator, *)
(* trend growth, AI analysis with its fallback) and the balance-sheet      *)
(* request handlers (upload, reprocess) acting on the document store.      *)
(***************************************************************************)
EXTENDS Integers, Sequences, FiniteSets, TLC

VARIABLES
    mode,        \* which engine the pure-function specification exercises
    d,           \* StructuredFinancialData handed to the Metrics Engine
    ratios,      \* MetricsSet returned by the last computation (or NoValue)
    ratioCalls,  \* number of metrics computations performed on d
    vdata,       \* flat extracted data handed to validateFinancialData
    validation,  \* its ValidationResult (or NoValue)
    sheets,      \* period records handed to the Trend/Comparison Engine
    trends,      \* growth entries computed from sheets (or NoValue)
    aiInput,     \* data handed to analyzeFinancialData
    aiResult,    \* what analyzeFinancialData produced (returned value or raised error)
    record,      \* a BalanceSheet document that calculateMetrics is called on
    recordCalls, \* number of calculateMetrics calls on record
    riskSheets,  \* the documents BalanceSheet.find gives a GET /risk handler
    riskResult,  \* the response of the GET /risk handler
    growthSheets, \* the documents BalanceSheet.find gives the GET /growth handler
    growthResult, \* the response of the GET /growth handler
    extractText,  \* the text handed to the Field Extractor
    extractResult, \* what extractFinancialPatterns returned for it
    store,       \* the BalanceSheet collection: the persisted documents, by id
    req,         \* the request being handled: its handler, position and locals
    response,    \* the response sent for the request (or NoValue)
    aiCalls,     \* invocations of analyzeFinancialData by the request being handled
    started,     \* number of requests received so far
    lastReprocess, \* the last successful reprocess of a document not updated since:
                   \* its document, AI output and outcome
    geminiModule, \* which AI utility module the server is built with
    geminiApiKey, \* whether GEMINI_API_KEY is set
    uploads,     \* the upload requests in flight together: position and locals of each
    collection,  \* the BalanceSheet collection they save to, by document id
    companies,   \* the Company collection, by id (a deleted id is never reused)
    companyUsers, \* for each company id, the number of users assigned to it
    hierarchy,   \* the outcome of the last company request or hierarchy walk
    chat,        \* the stored chat session: its messages and title
    senders      \* the send-message requests on it: position and locals of each

recordVars == <<record, recordCalls>>

riskVars == <<riskSheets, riskResult>>

growthVars == <<growthSheets, growthResult>>

extractVars == <<extractText, extractResult>>

engineVars == <<mode, d, ratios, ratioCalls, vdata, validation, sheets, trends, aiInput, aiResult,
                record, recordCalls, riskSheets, riskResult, growthSheets, growthResult,
                extractText, extractResult>>

handlerVars == <<store, req, response, aiCalls, started, lastReprocess, geminiModule,
                 geminiApiKey>>

uploadVars == <<uploads, collection>>

companyVars == <<companies, companyUsers, hierarchy>>

chatVars == <<chat, senders>>

\* what the request handlers on the single store leave alone
pureVars == <<engineVars, uploadVars, companyVars, chatVars>>

\* what the engine calls leave alone
pipeVars == <<handlerVars, uploadVars, companyVars, chatVars>>

vars == <<engineVars, handlerVars, uploadVars, companyVars, chatVars>>

NoValue == [k |-> "none"]

(***************************************************************************)
(* JavaScript numbers.  A number is n/d in lowest terms with d > 0; the    *)
(* three non-finite doubles are encoded with d = 0: 1/0 is Infinity, -1/0  *)
(* is -Infinity and 0/0 is NaN.  Rationals stand for the doubles the code  *)
(* computes (rounding is not modelled).                                    *)
(***************************************************************************)
Abs(x) == IF x < 0 THEN -x ELSE x

Sign(x) == IF x < 0 THEN -1 ELSE IF x > 0 THEN 1 ELSE 0

RECURSIVE GCD(_, _)
GCD(a, b) == IF b = 0 THEN a ELSE GCD(b, a % b)

Norm(n, m) ==
    LET g == GCD(Abs(n), Abs(m))
        s == IF m < 0 THEN -1 ELSE 1
    IN  [k |-> "num", n |-> (s * n) \div g, d |-> (s * m) \div g]

Num(i) == [k |-> "num", n |-> i, d |-> 1]

JsInfinity == [k |-> "num", n |-> 1, d |-> 0]

JsNegInfinity == [k |-> "num", n |-> -1, d |-> 0]

JsNaN == [k |-> "num", n |-> 0, d |-> 0]

IsNaN(x) == x.d = 0 /\ x.n = 0

IsInfinite(x) == x.d = 0 /\ x.n # 0

IsFinite(x) == x.d # 0

SignedInfinity(s) == IF s < 0 THEN JsNegInfinity ELSE JsInfinity

\* x / y
JsDiv(x, y) ==
    IF IsNaN(x) \/ IsNaN(y) THEN JsNaN
    ELSE IF IsInfinite(x) THEN
             IF IsInfinite(y) THEN JsNaN
             ELSE SignedInfinity(x.n * (IF y.n < 0 THEN -1 ELSE 1))
    ELSE IF IsInfinite(y) THEN Num(0)
    ELSE IF y.n = 0 THEN
             IF x.n = 0 THEN JsNaN ELSE SignedInfinity(x.n)
    ELSE Norm(x.n * y.d, x.d * y.n)

\* x * y
JsMul(x, y) ==
    IF IsNaN(x) \/ IsNaN(y) THEN JsNaN
    ELSE IF IsInfinite(x) \/ IsInfinite(y) THEN
             IF x.n = 0 \/ y.n = 0 THEN JsNaN
             ELSE SignedInfinity(Sign(x.n) * Sign(y.n))
    ELSE Norm(x.n * y.n, x.d * y.d)

\* x + y
JsAdd(x, y) ==
    IF IsNaN(x) \/ IsNaN(y) THEN JsNaN
    ELSE IF IsInfinite(x) THEN
             IF IsInfinite(y) /\ y.n # x.n THEN JsNaN ELSE x
    ELSE IF IsInfinite(y) THEN y
    ELSE Norm(x.n * y.d + y.n * x.d, x.d * y.d)

\* x - y
JsSub(x, y) == JsAdd(x, JsMul(Num(-1), y))

\* x > y (false when either side is NaN)
JsGt(x, y) ==
    IF IsNaN(x) \/ IsNaN(y) THEN FALSE
    ELSE IF IsInfinite(x) THEN x.n > 0 /\ ~(IsInfinite(y) /\ y.n > 0)
    ELSE IF IsInfinite(y) THEN y.n < 0
    ELSE x.n * y.d > y.n * x.d

RECURSIVE IntPow(_, _)
IntPow(b, e) == IF e = 0 THEN 1 ELSE b * IntPow(b, e - 1)

\* the resolution at which a root that is not rational is located
RootScale == 100

\* Math.pow(x, 1 / index) for an integer index >= 1; a root that is not a
\* rational number is a "between": a number strictly between lo and hi
JsRoot(x, index) ==
    LET IsPerfectPower(v) == \E r \in 0..v : IntPow(r, index) = v
        IntRoot(v) == CHOOSE r \in 0..v : IntPow(r, index) = v
        \* the largest r with (r / RootScale)^index <= x
        floor == CHOOSE r \in 0..(RootScale * (x.n \div x.d + 1)) :
                     /\ IntPow(r, index) * x.d <= x.n * IntPow(RootScale, index)
                     /\ IntPow(r + 1, index) * x.d > x.n * IntPow(RootScale, index)
    IN  IF IsNaN(x) THEN JsNaN
        ELSE IF index = 1 THEN x
        ELSE IF IsInfinite(x) THEN JsInfinity
        ELSE IF x.n < 0 THEN JsNaN
        ELSE IF IsPerfectPower(x.n) /\ IsPerfectPower(x.d)
            THEN Norm(IntRoot(x.n), IntRoot(x.d))
        ELSE [k |-> "between", lo |-> Norm(floor, RootScale), hi |-> Norm(floor + 1, RootScale)]

\* x - 1 for a result of Math.pow
MinusOne(x) ==
    IF x.k = "between"
        THEN [k |-> "between", lo |-> JsSub(x.lo, Num(1)), hi |-> JsSub(x.hi, Num(1))]
    ELSE JsSub(x, Num(1))

(***************************************************************************)
(* JavaScript objects are functions from property names to values; a       *)
(* property that is not in the domain reads as undefined.                  *)
(***************************************************************************)
EmptyObject == [p \in {} |-> 0]

\* obj.key || {}
SubObject(obj, key) == IF key \in DOMAIN obj THEN obj[key] ELSE EmptyObject

\* obj.key || dflt, for integer-valued properties (undefined and 0 are falsy)
NumOr(obj, key, dflt) ==
    IF key \in DOMAIN obj /\ obj[key] # 0 THEN obj[key] ELSE dflt

DaysPerYear == 365

(***************************************************************************)
(* Metrics Engine, AI utility module.                                      *)
(***************************************************************************)
calculateCashConversionCycle(data) ==
    LET bs == SubObject(data, "balanceSheet")
        is == SubObject(data, "incomeStatement")
        receivables == NumOr(bs, "receivables", 0)
        inventory == NumOr(bs, "inventory", 0)
        payables == NumOr(bs, "tradePayables", 0)
        revenue == NumOr(is, "revenue", 1)
        costOfGoodsSold == NumOr(is, "costOfGoodsSold", 1)
        dso == JsMul(JsDiv(Num(receivables), Num(revenue)), Num(DaysPerYear))
        dio == JsMul(JsDiv(Num(inventory), Num(costOfGoodsSold)), Num(DaysPerYear))
        dpo == JsMul(JsDiv(Num(payables), Num(costOfGoodsSold)), Num(DaysPerYear))
    IN  JsSub(JsAdd(dso, dio), dpo)

calculateDaysPayablesOutstanding(data) ==
    LET bs == SubObject(data, "balanceSheet")
        is == SubObject(data, "incomeStatement")
        payables == NumOr(bs, "tradePayables", 0)
        costOfGoodsSold == NumOr(is, "costOfGoodsSold", 1)
    IN  JsMul(JsDiv(Num(payables), Num(costOfGoodsSold)), Num(DaysPerYear))

calculateAdvancedRatios(data) ==
    LET bs == SubObject(data, "balanceSheet")
        is == SubObject(data, "incomeStatement")
        totalAssets == NumOr(bs, "totalAssets", 1)
        currentAssets == NumOr(bs, "currentAssets", 0)
        currentLiabilities == NumOr(bs, "currentLiabilities", 1)
        totalLiabilities == NumOr(bs, "totalLiabilities", 0)
        totalEquity == NumOr(bs, "totalEquity", 1)
        inventory == NumOr(bs, "inventory", 0)
        cashAndEquivalents == NumOr(bs, "cashAndEquivalents", 0)
        receivables == NumOr(bs, "receivables", 0)
        revenue == NumOr(is, "revenue", 0)
        netProfit == NumOr(is, "netProfit", 0)
        grossProfit == NumOr(is, "grossProfit", 0)
        costOfGoodsSold == NumOr(is, "costOfGoodsSold", 1)
    IN  [ currentRatio |-> JsDiv(Num(currentAssets), Num(currentLiabilities)),
          quickRatio |-> JsDiv(Num(currentAssets - inventory), Num(currentLiabilities)),
          cashRatio |-> JsDiv(Num(cashAndEquivalents), Num(currentLiabilities)),
          debtToEquity |-> JsDiv(Num(totalLiabilities), Num(totalEquity)),
          debtToAssets |-> JsDiv(Num(totalLiabilities), Num(totalAssets)),
          equityRatio |-> JsDiv(Num(totalEquity), Num(totalAssets)),
          assetTurnover |-> JsDiv(Num(revenue), Num(totalAssets)),
          inventoryTurnover |-> JsDiv(Num(costOfGoodsSold), Num(inventory)),
          receivablesTurnover |-> JsDiv(Num(revenue), Num(receivables)),
          fixedAssetTurnover |->
              JsDiv(Num(revenue), Num(NumOr(bs, "propertyPlantEquipment", 1))),
          roa |-> JsDiv(Num(netProfit), Num(totalAssets)),
          roe |-> JsDiv(Num(netProfit), Num(totalEquity)),
          grossMargin |-> JsDiv(Num(grossProfit), Num(revenue)),
          netMargin |-> JsDiv(Num(netProfit), Num(revenue)),
          workingCapital |-> Num(currentAssets - currentLiabilities),
          workingCapitalRatio |->
              JsDiv(Num(currentAssets - currentLiabilities), Num(totalAssets)),
          cashConversionCycle |-> calculateCashConversionCycle(data),
          daysSalesOutstanding |->
              JsMul(JsDiv(Num(receivables), Num(revenue)), Num(DaysPerYear)),
          daysInventoryOutstanding |->
              JsMul(JsDiv(Num(inventory), Num(costOfGoodsSold)), Num(DaysPerYear)),
          daysPayablesOutstanding |-> calculateDaysPayablesOutstanding(data) ]

(***************************************************************************)
(* Metrics Engine, analysis routes (GET /metrics/:balanceSheetId).         *)
(***************************************************************************)
routeCalculateCashConversionCycle(data) ==
    LET bs == SubObject(data, "balanceSheet")
        is == SubObject(data, "incomeStatement")
        receivables == NumOr(bs, "receivables", 0)
        inventory == NumOr(bs, "inventory", 0)
        payables == NumOr(bs, "tradePayables", 0)
        revenue == NumOr(is, "revenue", 1)
        costOfGoodsSold == NumOr(is, "costOfGoodsSold", 1)
        dso == JsMul(JsDiv(Num(receivables), Num(revenue)), Num(DaysPerYear))
        dio == JsMul(JsDiv(Num(inventory), Num(costOfGoodsSold)), Num(DaysPerYear))
        dpo == JsMul(JsDiv(Num(payables), Num(costOfGoodsSold)), Num(DaysPerYear))
    IN  JsSub(JsAdd(dso, dio), dpo)

calculateAdvancedMetrics(data) ==
    LET bs == SubObject(data, "balanceSheet")
        is == SubObject(data, "incomeStatement")
        totalAssets == NumOr(bs, "totalAssets", 1)
        currentAssets == NumOr(bs, "currentAssets", 0)
        currentLiabilities == NumOr(bs, "currentLiabilities", 1)
        totalLiabilities == NumOr(bs, "totalLiabilities", 0)
        totalEquity == NumOr(bs, "totalEquity", 1)
        inventory == NumOr(bs, "inventory", 0)
        cashAndEquivalents == NumOr(bs, "cashAndEquivalents", 0)
        receivables == NumOr(bs, "receivables", 0)
        revenue == NumOr(is, "revenue", 0)
        netProfit == NumOr(is, "netProfit", 0)
        grossProfit == NumOr(is, "grossProfit", 0)
        costOfGoodsSold == NumOr(is, "costOfGoodsSold", 1)
        payables == NumOr(bs, "tradePayables", 0)
    IN  [ currentRatio |-> JsDiv(Num(currentAssets), Num(currentLiabilities)),
          quickRatio |-> JsDiv(Num(currentAssets - inventory), Num(currentLiabilities)),
          cashRatio |-> JsDiv(Num(cashAndEquivalents), Num(currentLiabilities)),
          debtToEquity |-> JsDiv(Num(totalLiabilities), Num(totalEquity)),
          debtToAssets |-> JsDiv(Num(totalLiabilities), Num(totalAssets)),
          equityRatio |-> JsDiv(Num(totalEquity), Num(totalAssets)),
          assetTurnover |-> JsDiv(Num(revenue), Num(totalAssets)),
          inventoryTurnover |-> JsDiv(Num(costOfGoodsSold), Num(inventory)),
          receivablesTurnover |-> JsDiv(Num(revenue), Num(receivables)),
          fixedAssetTurnover |->
              JsDiv(Num(revenue), Num(NumOr(bs, "propertyPlantEquipment", 1))),
          roa |-> JsDiv(Num(netProfit), Num(totalAssets)),
          roe |-> JsDiv(Num(netProfit), Num(totalEquity)),
          grossMargin |-> JsDiv(Num(grossProfit), Num(revenue)),
          netMargin |-> JsDiv(Num(netProfit), Num(revenue)),
          workingCapital |-> Num(currentAssets - currentLiabilities),
          workingCapitalRatio |->
              JsDiv(Num(currentAssets - currentLiabilities), Num(totalAssets)),
          cashConversionCycle |-> routeCalculateCashConversionCycle(data),
          daysSalesOutstanding |->
              JsMul(JsDiv(Num(receivables), Num(revenue)), Num(DaysPerYear)),
          daysInventoryOutstanding |->
              JsMul(JsDiv(Num(inventory), Num(costOfGoodsSold)), Num(DaysPerYear)),
          daysPayablesOutstanding |->
              JsMul(JsDiv(Num(payables), Num(costOfGoodsSold)), Num(DaysPerYear)) ]

(***************************************************************************)
(* Field names of the flat extracted data, in the order of the extractor's *)
(* pattern table (the order Object.entries enumerates them in).            *)
(***************************************************************************)
PatternKeys ==
    << "totalAssets", "currentAssets", "nonCurrentAssets", "cashAndEquivalents",
       "investments", "receivables", "inventory", "propertyPlantEquipment",
       "intangibleAssets", "totalLiabilities", "currentLiabilities",
       "nonCurrentLiabilities", "shortTermBorrowings", "longTermBorrowings",
       "tradePayables", "provisions", "totalEquity", "shareCapital",
       "reservesAndSurplus", "retainedEarnings" >>

PatternKeySet == {PatternKeys[i] : i \in 1..Len(PatternKeys)}

\* the "Negative value found" warnings, one per entry of data below 0, in key order
RECURSIVE NegativeValueWarnings(_, _, _)
NegativeValueWarnings(keys, data, i) ==
    IF i > Len(keys) THEN << >>
    ELSE (IF keys[i] \in DOMAIN data /\ data[keys[i]] < 0
             THEN << [kind |-> "negative", key |-> keys[i], value |-> data[keys[i]]] >>
             ELSE << >>)
         \o NegativeValueWarnings(keys, data, i + 1)

BalanceTolerancePercent == 5

\* validateFinancialData rejecting the data when any one of the three totals is missing
validateFinancialDataAnyMissing(data) ==
    LET totalAssets == NumOr(data, "totalAssets", 0)
        totalLiabilities == NumOr(data, "totalLiabilities", 0)
        totalEquity == NumOr(data, "totalEquity", 0)
        balance == Abs((totalLiabilities + totalEquity) - totalAssets)
        balanceThreshold == JsMul(Num(totalAssets), Norm(BalanceTolerancePercent, 100))
        balanceWarning ==
            IF JsGt(Num(balance), balanceThreshold)
                THEN << [kind |-> "balance", key |-> "", value |-> balance] >>
                ELSE << >>
        negativeWarnings == NegativeValueWarnings(PatternKeys, data, 1)
        missing == NumOr(data, "totalAssets", 0) = 0
                   \/ NumOr(data, "totalLiabilities", 0) = 0
                   \/ NumOr(data, "totalEquity", 0) = 0
    IN  [ isValid |-> ~missing,
          errors |-> IF missing THEN << "No critical financial data found in PDF" >>
                     ELSE << >>,
          warnings |-> balanceWarning \o negativeWarnings ]

\* validateFinancialData warning already when the imbalance equals the tolerance
validateFinancialDataInclusive(data) ==
    LET totalAssets == NumOr(data, "totalAssets", 0)
        totalLiabilities == NumOr(data, "totalLiabilities", 0)
        totalEquity == NumOr(data, "totalEquity", 0)
        balance == Abs((totalLiabilities + totalEquity) - totalAssets)
        balanceThreshold == JsMul(Num(totalAssets), Norm(BalanceTolerancePercent, 100))
        balanceWarning ==
            IF ~JsGt(balanceThreshold, Num(balance))
                THEN << [kind |-> "balance", key |-> "", value |-> balance] >>
                ELSE << >>
        negativeWarnings == NegativeValueWarnings(PatternKeys, data, 1)
        missing == NumOr(data, "totalAssets", 0) = 0
                   /\ NumOr(data, "totalLiabilities", 0) = 0
                   /\ NumOr(data, "totalEquity", 0) = 0
    IN  [ isValid |-> ~missing,
          errors |-> IF missing THEN << "No critical financial data found in PDF" >>
                     ELSE << >>,
          warnings |-> balanceWarning \o negativeWarnings ]

(***************************************************************************)
(* Data Validator.                                                         *)
(***************************************************************************)
validateFinancialData(data) ==
    LET totalAssets == NumOr(data, "totalAssets", 0)
        totalLiabilities == NumOr(data, "totalLiabilities", 0)
        totalEquity == NumOr(data, "totalEquity", 0)
        balance == Abs((totalLiabilities + totalEquity) - totalAssets)
        balanceThreshold == JsMul(Num(totalAssets), Norm(BalanceTolerancePercent, 100))
        balanceWarning ==
            IF JsGt(Num(balance), balanceThreshold)
                THEN << [kind |-> "balance", key |-> "", value |-> balance] >>
                ELSE << >>
        negativeWarnings == NegativeValueWarnings(PatternKeys, data, 1)
        missing == NumOr(data, "totalAssets", 0) = 0
                   /\ NumOr(data, "totalLiabilities", 0) = 0
                   /\ NumOr(data, "totalEquity", 0) = 0
    IN  [ isValid |-> ~missing,
          errors |-> IF missing THEN << "No critical financial data found in PDF" >>
                     ELSE << >>,
          warnings |-> balanceWarning \o negativeWarnings ]

(***************************************************************************)
(* Trend/Comparison Engine.                                                *)
(***************************************************************************)
\* ((current - previous) / previous) * 100
GrowthPercent(current, previous) ==
    JsMul(JsDiv(Num(current - previous), Num(previous)), Num(100))

\* Array.prototype.sort with comparator (a, b) => a.year - b.year (stable)
RECURSIVE InsertByYear(_, _)
InsertByYear(sorted, e) ==
    IF sorted = << >> THEN << e >>
    ELSE IF Head(sorted).year - e.year > 0 THEN << e >> \o sorted
    ELSE << Head(sorted) >> \o InsertByYear(Tail(sorted), e)

RECURSIVE SortByYear(_)
SortByYear(s) ==
    IF s = << >> THEN << >>
    ELSE InsertByYear(SortByYear(SubSeq(s, 1, Len(s) - 1)), s[Len(s)])

\* the entry calculateTrendAnalysis stores under `${previous.year}-${current.year}`
TrendEntry(previous, current) ==
    LET currentData == SubObject(current, "data")
        previousData == SubObject(previous, "data")
        currentRevenue == NumOr(SubObject(currentData, "incomeStatement"), "revenue", 0)
        previousRevenue == NumOr(SubObject(previousData, "incomeStatement"), "revenue", 0)
        currentAssets == NumOr(SubObject(currentData, "balanceSheet"), "totalAssets", 0)
        previousAssets == NumOr(SubObject(previousData, "balanceSheet"), "totalAssets", 0)
        currentEquity == NumOr(SubObject(currentData, "balanceSheet"), "totalEquity", 0)
        previousEquity == NumOr(SubObject(previousData, "balanceSheet"), "totalEquity", 0)
    IN  [ key |-> << previous.year, current.year >>,
          revenueGrowth |-> GrowthPercent(currentRevenue, previousRevenue),
          assetGrowth |-> GrowthPercent(currentAssets, previousAssets),
          equityGrowth |-> GrowthPercent(currentEquity, previousEquity),
          year |-> current.year ]

\* the pairs taken in the order the caller supplied, without the sort
calculateTrendAnalysisUnsorted(balanceSheets) ==
    IF Len(balanceSheets) < 2 THEN << >>
    ELSE [ i \in 1..(Len(balanceSheets) - 1) |->
               TrendEntry(balanceSheets[i], balanceSheets[i + 1]) ]

\* The trends object as the sequence of its assignments, oldest pair first
\* (an assignment under a key already present replaces that property).
calculateTrendAnalysis(balanceSheets) ==
    IF Len(balanceSheets) < 2 THEN << >>
    ELSE LET sortedSheets == SortByYear(balanceSheets)
         IN  [ i \in 1..(Len(sortedSheets) - 1) |->
                   TrendEntry(sortedSheets[i], sortedSheets[i + 1]) ]


\* find(...).sort({ financialYear: -1 }): newest first (ties keep store order)
RECURSIVE InsertByFinancialYearDesc(_, _)
InsertByFinancialYearDesc(sorted, e) ==
    IF sorted = << >> THEN << e >>
    ELSE IF Head(sorted).financialYear < e.financialYear THEN << e >> \o sorted
    ELSE << Head(sorted) >> \o InsertByFinancialYearDesc(Tail(sorted), e)

RECURSIVE SortByFinancialYearDesc(_)
SortByFinancialYearDesc(s) ==
    IF s = << >> THEN << >>
    ELSE InsertByFinancialYearDesc(SortByFinancialYearDesc(SubSeq(s, 1, Len(s) - 1)),
                                   s[Len(s)])

\* find(...).sort({ financialYear: 1 }): oldest first (ties keep store order)
RECURSIVE InsertByFinancialYearAsc(_, _)
InsertByFinancialYearAsc(sorted, e) ==
    IF sorted = << >> THEN << e >>
    ELSE IF Head(sorted).financialYear > e.financialYear THEN << e >> \o sorted
    ELSE << Head(sorted) >> \o InsertByFinancialYearAsc(Tail(sorted), e)

RECURSIVE SortByFinancialYearAsc(_)
SortByFinancialYearAsc(s) ==
    IF s = << >> THEN << >>
    ELSE InsertByFinancialYearAsc(SortByFinancialYearAsc(SubSeq(s, 1, Len(s) - 1)),
                                  s[Len(s)])

\* GET /growth/:companyId of the analysis routes that read the stored flat fields:
\* the growthData of the response, or a 400 marker below two documents
growthRoute(documents) ==
    LET balanceSheets == SortByFinancialYearDesc(documents)
    IN  IF Len(balanceSheets) < 2 THEN << >>
        ELSE [ i \in 1..(Len(balanceSheets) - 1) |->
                 LET current == balanceSheets[i].extractedData
                     previous == balanceSheets[i + 1].extractedData
                 IN  [ year |-> balanceSheets[i].financialYear,
                       previousYear |-> balanceSheets[i + 1].financialYear,
                       assetGrowth |->
                           GrowthPercent(current.totalAssets, previous.totalAssets),
                       liabilityGrowth |->
                           GrowthPercent(current.totalLiabilities, previous.totalLiabilities),
                       equityGrowth |->
                           GrowthPercent(current.totalEquity, previous.totalEquity),
                       currentAssetGrowth |->
                           GrowthPercent(current.currentAssets, previous.currentAssets),
                       currentLiabilityGrowth |->
                           GrowthPercent(current.currentLiabilities,
                                         previous.currentLiabilities) ] ]

\* GET /growth/:companyId of the analysis routes that read the nested
\* balanceSheet / incomeStatement sub-objects of extractedData (oldest first)
growthRouteNested(documents) ==
    LET balanceSheets == SortByFinancialYearAsc(documents)
    IN  IF Len(balanceSheets) < 2 THEN << >>
        ELSE [ i \in 1..(Len(balanceSheets) - 1) |->
                 LET currentData == balanceSheets[i + 1].extractedData
                     previousData == balanceSheets[i].extractedData
                     currentAssets ==
                         NumOr(SubObject(currentData, "balanceSheet"), "totalAssets", 0)
                     previousAssets ==
                         NumOr(SubObject(previousData, "balanceSheet"), "totalAssets", 0)
                     currentRevenue ==
                         NumOr(SubObject(currentData, "incomeStatement"), "revenue", 0)
                     previousRevenue ==
                         NumOr(SubObject(previousData, "incomeStatement"), "revenue", 0)
                     currentEquity ==
                         NumOr(SubObject(currentData, "balanceSheet"), "totalEquity", 0)
                     previousEquity ==
                         NumOr(SubObject(previousData, "balanceSheet"), "totalEquity", 0)
                 IN  [ year |-> balanceSheets[i + 1].financialYear,
                       assetGrowth |-> GrowthPercent(currentAssets, previousAssets),
                       revenueGrowth |-> GrowthPercent(currentRevenue, previousRevenue),
                       equityGrowth |-> GrowthPercent(currentEquity, previousEquity) ] ]

\* the root taken over the number of periods instead of the number of intervals
CompoundGrowthPerPeriod(lastValue, firstValue, yearsDiff) ==
    MinusOne(JsRoot(JsDiv(Num(lastValue), Num(firstValue)), yearsDiff + 1))

\* Math.pow(lastYear.x / firstYear.x, 1 / yearsDiff) - 1
CompoundGrowth(lastValue, firstValue, yearsDiff) ==
    MinusOne(JsRoot(JsDiv(Num(lastValue), Num(firstValue)), yearsDiff))

\* the whole GET /growth/:companyId handler of the analysis routes that read the
\* fields of extractedData; balanceSheets is what
\* BalanceSheet.find(...).sort({financialYear: -1}).limit(years) gave
growthRouteResponse(balanceSheets) ==
    IF Len(balanceSheets) < 2
        THEN [ status |-> 400,
               message |-> "At least 2 years of data are required for growth analysis" ]
    ELSE
        LET firstYear == balanceSheets[Len(balanceSheets)].extractedData
            lastYear == balanceSheets[1].extractedData
            yearsDiff == Len(balanceSheets) - 1
        IN  [ status |-> 200,
              growthData |-> growthRoute(balanceSheets),
              cagr |->
                [ assets |->
                      CompoundGrowth(lastYear.totalAssets, firstYear.totalAssets, yearsDiff),
                  liabilities |->
                      CompoundGrowth(lastYear.totalLiabilities, firstYear.totalLiabilities,
                                     yearsDiff),
                  equity |->
                      CompoundGrowth(lastYear.totalEquity, firstYear.totalEquity, yearsDiff) ],
              summary |->
                [ totalYears |-> Len(balanceSheets),
                  period |-> << balanceSheets[Len(balanceSheets)].financialYear,
                                balanceSheets[1].financialYear >> ] ]

(***************************************************************************)
(* The Risk Classifier: GET /risk/:companyId, in its two versions.         *)
(* balanceSheets is what BalanceSheet.find(...).sort(...).limit(3) gave.   *)
(***************************************************************************)
JsLt(x, y) == JsGt(y, x)

\* x || 0 for a number x
OrZero(x) == IF IsNaN(x) \/ x = Num(0) THEN Num(0) ELSE x

\* [a, b, c].filter(r => r === level).length
CountOf(level, a, b, c) ==
    (IF a = level THEN 1 ELSE 0) + (IF b = level THEN 1 ELSE 0) + (IF c = level THEN 1 ELSE 0)

\* the handler of the analysis routes that read extractedData.balanceSheet
riskRouteNested(balanceSheets) ==
    IF Len(balanceSheets) = 0
        THEN [status |-> 404, message |-> "No balance sheets found for risk assessment"]
    ELSE
        [ status |-> 200,
          riskMetrics |->
            [ i \in 1..Len(balanceSheets) |->
                LET data == balanceSheets[i].extractedData
                    bs == SubObject(data, "balanceSheet")
                    currentAssets == NumOr(bs, "currentAssets", 0)
                    currentLiabilities == NumOr(bs, "currentLiabilities", 1)
                    totalLiabilities == NumOr(bs, "totalLiabilities", 0)
                    totalEquity == NumOr(bs, "totalEquity", 1)
                    totalAssets == NumOr(bs, "totalAssets", 0)
                    currentRatio == JsDiv(Num(currentAssets), Num(currentLiabilities))
                    debtToEquity == JsDiv(Num(totalLiabilities), Num(totalEquity))
                    debtToAssets == JsDiv(Num(totalLiabilities), Num(totalAssets))
                    liquidityRisk ==
                        IF JsLt(currentRatio, Num(1)) THEN "High"
                        ELSE IF JsLt(currentRatio, Norm(3, 2)) THEN "Medium"
                        ELSE "Low"
                    solvencyRisk ==
                        IF JsGt(debtToEquity, Num(1)) THEN "High"
                        ELSE IF JsGt(debtToEquity, Norm(1, 2)) THEN "Medium"
                        ELSE "Low"
                    assetRisk ==
                        IF JsGt(debtToAssets, Norm(3, 5)) THEN "High"
                        ELSE IF JsGt(debtToAssets, Norm(2, 5)) THEN "Medium"
                        ELSE "Low"
                IN  [ year |-> balanceSheets[i].financialYear,
                      currentRatio |-> currentRatio,
                      debtToEquity |-> debtToEquity,
                      debtToAssets |-> debtToAssets,
                      liquidityRisk |-> liquidityRisk,
                      solvencyRisk |-> solvencyRisk,
                      assetRisk |-> assetRisk,
                      overallRisk |->
                          IF CountOf("High", liquidityRisk, solvencyRisk, assetRisk) > 1
                              THEN "High"
                          ELSE IF CountOf("Medium", liquidityRisk, solvencyRisk, assetRisk) > 1
                              THEN "Medium"
                          ELSE "Low" ] ] ]

\* the handler of the analysis routes that read the fields of extractedData
riskRoute(balanceSheets) ==
    IF Len(balanceSheets) = 0
        THEN [status |-> 404, message |-> "No balance sheet data found for risk assessment"]
    ELSE
        LET latest == balanceSheets[1].extractedData
            currentRatio ==
                OrZero(JsDiv(Num(latest.currentAssets), Num(latest.currentLiabilities)))
            debtToEquityRatio ==
                OrZero(JsDiv(Num(latest.totalLiabilities), Num(latest.totalEquity)))
            Trend(bs) ==
                [ year |-> bs.financialYear,
                  currentRatio |->
                      OrZero(JsDiv(Num(bs.extractedData.currentAssets),
                                   Num(bs.extractedData.currentLiabilities))),
                  debtToEquityRatio |->
                      OrZero(JsDiv(Num(bs.extractedData.totalLiabilities),
                                   Num(bs.extractedData.totalEquity))) ]
        IN  [ status |-> 200,
              riskMetrics |->
                [ liquidityRisk |->
                    [ currentRatio |-> currentRatio,
                      quickRatio |->
                          OrZero(JsDiv(Num(latest.currentAssets - latest.inventory),
                                       Num(latest.currentLiabilities))),
                      workingCapital |-> latest.currentAssets - latest.currentLiabilities,
                      riskLevel |->
                          IF JsLt(currentRatio, Num(1)) THEN "High"
                          ELSE IF JsLt(currentRatio, Norm(3, 2)) THEN "Medium"
                          ELSE "Low" ],
                  solvencyRisk |->
                    [ debtToEquityRatio |-> debtToEquityRatio,
                      debtToAssetRatio |->
                          OrZero(JsDiv(Num(latest.totalLiabilities), Num(latest.totalAssets))),
                      equityRatio |->
                          OrZero(JsDiv(Num(latest.totalEquity), Num(latest.totalAssets))),
                      riskLevel |->
                          IF JsGt(debtToEquityRatio, Num(2)) THEN "High"
                          ELSE IF JsGt(debtToEquityRatio, Num(1)) THEN "Medium"
                          ELSE "Low" ],
                  operationalRisk |->
                    [ assetUtilization |-> IF latest.totalAssets > 0 THEN 1 ELSE 0,
                      inventoryTurnover |->
                          IF latest.inventory > 0
                              THEN JsDiv(Num(latest.currentAssets), Num(latest.inventory))
                              ELSE Num(0),
                      receivablesTurnover |->
                          IF latest.receivables > 0
                              THEN JsDiv(Num(latest.currentAssets), Num(latest.receivables))
                              ELSE Num(0) ] ],
              trendAnalysis |->
                  IF Len(balanceSheets) > 1
                      THEN [ currentRatioTrend |->
                                 [ i \in 1..Len(balanceSheets) |->
                                     Trend(balanceSheets[i]).currentRatio ],
                             debtToEquityTrend |->
                                 [ i \in 1..Len(balanceSheets) |->
                                     Trend(balanceSheets[i]).debtToEquityRatio ],
                             years |->
                                 [ i \in 1..Len(balanceSheets) |->
                                     Trend(balanceSheets[i]).year ] ]
                      ELSE NoValue,
              year |-> balanceSheets[1].financialYear ]


(***************************************************************************)
(* AI narrative collaborator and Insight Fallback Generator.               *)
(* A response text is the sequence of its lines.  A line carries what the  *)
(* extractors read from it: whether it contains a bullet character         *)
(* (one of the three the code looks for), the text left after the leading  *)
(* bullet is removed and the line trimmed, and whether it contains the     *)
(* words "risk" / "recommend".  In the sample texts those words occur in   *)
(* unbulleted heading lines only.                                          *)
(***************************************************************************)
Line(text, bullet, stripped, risk, recommend) ==
    [ text |-> text, bullet |-> bullet, stripped |-> stripped,
      risk |-> risk, recommend |-> recommend, args |-> << >> ]

Take(s, n) == SubSeq(s, 1, IF Len(s) < n THEN Len(s) ELSE n)

RECURSIVE BulletItems(_)
BulletItems(lines) ==
    IF lines = << >> THEN << >>
    ELSE (IF Head(lines).bullet /\ Head(lines).stripped # ""
             THEN << Head(lines).stripped >> ELSE << >>)
         \o BulletItems(Tail(lines))

\* analysis.split(/word/i)[1].split('\n'): the lines between the first line
\* holding the word and the next one holding it
RECURSIVE UpToWord(_, _)
UpToWord(lines, word) ==
    IF lines = << >> \/ Head(lines)[word] THEN << >>
    ELSE << Head(lines) >> \o UpToWord(Tail(lines), word)

RECURSIVE SectionAfter(_, _)
SectionAfter(lines, word) ==
    IF lines = << >> THEN << >>
    ELSE IF Head(lines)[word] THEN UpToWord(Tail(lines), word)
    ELSE SectionAfter(Tail(lines), word)

MaxInsights == 5

MaxRisks == 3

MaxRecommendations == 3

extractKeyInsights(analysis) == Take(BulletItems(analysis), MaxInsights)

extractRiskFactors(analysis) == Take(BulletItems(SectionAfter(analysis, "risk")), MaxRisks)

extractRecommendations(analysis) ==
    Take(BulletItems(SectionAfter(analysis, "recommend")), MaxRecommendations)

\* Number.prototype.toFixed(2): the value rounded to two decimals
ToFixed2(x) ==
    IF ~IsFinite(x) THEN x
    ELSE LET scaled == x.n * 100
             q == Abs(scaled) \div x.d
             r == Abs(scaled) % x.d
             rounded == IF 2 * r >= x.d THEN q + 1 ELSE q
         IN  Norm(Sign(scaled) * rounded, 100)

generateIndustryBenchmark(r) ==
    LET industryAverages ==
            [ currentRatio |-> Norm(18, 10), debtToEquity |-> Norm(6, 10),
              roa |-> Norm(8, 100), roe |-> Norm(12, 100),
              assetTurnover |-> Norm(12, 10), netMargin |-> Norm(10, 100) ]
        Above(key) ==
            [ company |-> r[key], industry |-> industryAverages[key],
              status |-> IF JsGt(r[key], industryAverages[key])
                            THEN "Good" ELSE "Below Average" ]
    IN  [ currentRatio |-> Above("currentRatio"),
          debtToEquity |->
              [ company |-> r.debtToEquity, industry |-> industryAverages.debtToEquity,
                status |-> IF JsGt(industryAverages.debtToEquity, r.debtToEquity)
                              THEN "Good" ELSE "Above Average" ],
          roa |-> Above("roa"),
          roe |-> Above("roe"),
          assetTurnover |-> Above("assetTurnover"),
          netMargin |-> Above("netMargin") ]

generateFallbackFinancialAnalysis(balanceSheetData) ==
    LET r == calculateAdvancedRatios(balanceSheetData)
    IN  [ analysis |->
              << [ text |-> "Based on the financial data provided ...",
                   bullet |-> FALSE, stripped |-> "", risk |-> FALSE, recommend |-> FALSE,
                   args |-> << ToFixed2(r.currentRatio), ToFixed2(r.debtToEquity) >> ] >>,
          keyInsights |->
              << "Strong liquidity position with adequate working capital",
                 "Healthy debt-to-equity ratio indicating good solvency",
                 "Positive net profit margin showing operational efficiency",
                 "Good asset utilization with strong ROA",
                 "Favorable cash conversion cycle" >>,
          riskFactors |->
              << "Market volatility could impact asset values",
                 "Interest rate changes may affect debt servicing costs",
                 "Industry competition may pressure profit margins",
                 "Economic downturns could affect receivables collection" >>,
          recommendations |->
              << "Maintain current liquidity ratios",
                 "Consider diversifying investment portfolio",
                 "Monitor market conditions for risk management",
                 "Optimize working capital management",
                 "Explore debt refinancing opportunities" >>,
          advancedMetrics |-> r,
          industryBenchmark |-> generateIndustryBenchmark(r) ]

\* How a call ends: a returned value or a raised error
Returned(v) == [threw |-> FALSE, value |-> v, message |-> ""]

Raised(msg) == [threw |-> TRUE, value |-> NoValue, message |-> msg]

(***************************************************************************)
(* Comparative analysis (generateComparativeAnalysis and its fallback).    *)
(***************************************************************************)
\* assessFinancialHealth: the ratings of the array's last element
assessFinancialHealth(balanceSheets) ==
    IF Len(balanceSheets) = 0 THEN NoValue
    ELSE LET latestSheet == balanceSheets[Len(balanceSheets)]
             r == calculateAdvancedRatios(SubObject(latestSheet, "data"))
         IN  [ creditworthiness |->
                   IF JsGt(r.debtToEquity, Num(1)) THEN "High Yield"
                   ELSE IF JsLt(r.currentRatio, Norm(3, 2)) THEN "Speculative Grade"
                   ELSE "Investment Grade",
               financialFlexibility |->
                   IF JsLt(r.cashRatio, Norm(1, 10)) THEN "Low"
                   ELSE IF JsLt(r.cashRatio, Norm(1, 5)) THEN "Moderate"
                   ELSE "High",
               riskProfile |->
                   IF JsGt(r.debtToEquity, Norm(6, 5)) THEN "High"
                   ELSE IF JsGt(r.debtToEquity, Norm(4, 5)) THEN "Moderate"
                   ELSE "Low",
               growthPotential |->
                   IF JsLt(r.roa, Norm(1, 50)) THEN "Limited"
                   ELSE IF JsLt(r.roa, Norm(1, 20)) THEN "Moderate"
                   ELSE "Strong" ]

\* the caller's array after calculateTrendAnalysis has run on it
AfterTrendAnalysis(balanceSheets) ==
    IF Len(balanceSheets) < 2 THEN balanceSheets ELSE SortByYear(balanceSheets)

\* the health is assessed after the trends in both branches, on the array the
\* trend computation has sorted
generateFallbackComparativeAnalysis(balanceSheets) ==
    [ analysis |-> "fallback",
      trends |-> calculateTrendAnalysis(balanceSheets),
      projections |-> "fallback",
      financialHealth |-> assessFinancialHealth(AfterTrendAnalysis(balanceSheets)) ]

generateComparativeAnalysis(balanceSheets, apiKey, ai) ==
    IF ~apiKey THEN generateFallbackComparativeAnalysis(balanceSheets)
    ELSE IF ai.kind = "text" THEN
        [ analysis |-> "text",
          trends |-> calculateTrendAnalysis(balanceSheets),
          projections |-> "extractProjections",
          financialHealth |-> assessFinancialHealth(AfterTrendAnalysis(balanceSheets)) ]
    ELSE generateFallbackComparativeAnalysis(balanceSheets)

(***************************************************************************)
(* analyzeFinancialData of the AI utility module that has the fallback.    *)
(* apiKey: whether GEMINI_API_KEY is set; ai: how the generateContent call *)
(* ends ([kind |-> "text", text |-> lines] or [kind |-> "error", ...]).    *)
(***************************************************************************)
analyzeFinancialData(balanceSheetData, apiKey, ai) ==
    IF ~apiKey THEN Returned(generateFallbackFinancialAnalysis(balanceSheetData))
    ELSE IF ai.kind = "text" THEN
        LET r == calculateAdvancedRatios(balanceSheetData)
        IN  Returned([ analysis |-> ai.text,
                       keyInsights |-> extractKeyInsights(ai.text),
                       riskFactors |-> extractRiskFactors(ai.text),
                       recommendations |-> extractRecommendations(ai.text),
                       advancedMetrics |-> r,
                       industryBenchmark |-> generateIndustryBenchmark(r) ])
    ELSE IF ai.status = 429 \/ ai.quota THEN
        Returned(generateFallbackFinancialAnalysis(balanceSheetData))
    ELSE Returned(generateFallbackFinancialAnalysis(balanceSheetData))

(***************************************************************************)
(* analyzeFinancialData of the AI utility module without a fallback.       *)
(***************************************************************************)
analyzeFinancialDataNoFallback(balanceSheetData, apiKey, ai) ==
    IF ai.kind = "text" THEN
        Returned([ analysis |-> ai.text,
                   keyInsights |-> extractKeyInsights(ai.text),
                   riskFactors |-> extractRiskFactors(ai.text),
                   recommendations |-> extractRecommendations(ai.text) ])
    ELSE Raised("Failed to analyze financial data")


(***************************************************************************)
(* PDF text and the Field Extractor.                                       *)
(* A text is the sequence of its items: a label, a separator, a currency   *)
(* sign and a numeral, which is the sequence of its characters.  A pattern *)
(* of the extractor matches an item when one of its alternatives ends the  *)
(* item's label (the match may start inside the label, in any letter case) *)
(* and the optional separator and rupee sign are followed by a digit or a  *)
(* comma; EndingsOf lists, for each label of the sample documents, the     *)
(* endings some pattern accepts.                                           *)
(***************************************************************************)
DigitCharacters == <<"0", "1", "2", "3", "4", "5", "6", "7", "8", "9">>

DigitSet == {DigitCharacters[v] : v \in 1..10}

\* the decimal numeral of a natural number
RECURSIVE NumeralOf(_)
NumeralOf(n) ==
    IF n < 10 THEN << DigitCharacters[n + 1] >>
    ELSE NumeralOf(n \div 10) \o << DigitCharacters[(n % 10) + 1] >>

\* the number a sequence of digits denotes
RECURSIVE IntegerOf(_)
IntegerOf(digits) ==
    IF digits = << >> THEN 0
    ELSE IntegerOf(SubSeq(digits, 1, Len(digits) - 1)) * 10
             + (CHOOSE v \in 0..9 : DigitCharacters[v + 1] = digits[Len(digits)])

\* a decimal numeral of more integer digits than this is beyond the largest double
DoubleDigits == 309

\* the length of the longest prefix of s made of characters that satisfy accepted
PrefixLength(s, accepted) ==
    IF \E i \in 1..Len(s) : s[i] \notin accepted
        THEN (CHOOSE i \in 1..Len(s) :
                 s[i] \notin accepted /\ \A j \in 1..(i - 1) : s[j] \in accepted) - 1
        ELSE Len(s)

\* the group ([\d,]+\.?\d*) at the start of a numeral; empty when it cannot match
Captured(numeral) ==
    LET head == PrefixLength(numeral, DigitSet \cup {","})
        afterHead == SubSeq(numeral, head + 1, Len(numeral))
        tail == IF afterHead # << >> /\ afterHead[1] = "."
                    THEN 1 + PrefixLength(Tail(afterHead), DigitSet)
                    ELSE 0
    IN  IF head = 0 THEN << >> ELSE SubSeq(numeral, 1, head + tail)

\* .replace(/,/g, '')
RemoveCommas(s) == SelectSeq(s, LAMBDA c : c # ",")

\* parseFloat of digits with at most one point among them
parseFloat(s) ==
    LET whole == SubSeq(s, 1, PrefixLength(s, DigitSet))
        fraction == SubSeq(s, Len(whole) + 2, Len(s))
        significant == SubSeq(whole, PrefixLength(whole, {"0"}) + 1, Len(whole))
    IN  IF Len(whole) + Len(fraction) = 0 THEN JsNaN
        ELSE IF Len(significant) > DoubleDigits THEN JsInfinity
        ELSE Norm(IntegerOf(significant) * IntPow(10, Len(fraction)) + IntegerOf(fraction),
                  IntPow(10, Len(fraction)))

TextItem(label, separator, currency, numeral) ==
    [label |-> label, separator |-> separator, currency |-> currency, numeral |-> numeral]

\* "label amount"
Item(label, amount) == TextItem(label, "", "", NumeralOf(amount))

\* an alternative whose last character is optional
Opt(stem, last) == {stem, stem \o last}

PatternAlternatives(key) ==
    CASE key = "totalAssets" ->
             Opt("Total Asset", "s") \cup Opt("Total Assets and Liabilitie", "s")
      [] key = "currentAssets" ->
             Opt("Current Asset", "s") \cup Opt("Current Assets and Liabilitie", "s")
      [] key = "nonCurrentAssets" ->
             Opt("Non-Current Asset", "s") \cup Opt("Fixed Asset", "s")
      [] key = "cashAndEquivalents" ->
             Opt("Cash and Cash Equivalent", "s") \cup Opt("Cash and Bank Balance", "s")
      [] key = "investments" -> Opt("Investment", "s") \cup Opt("Financial Asset", "s")
      [] key = "receivables" ->
             Opt("Trade Receivable", "s") \cup Opt("Accounts Receivabl", "e")
                 \cup Opt("Sundry Debtor", "s")
      [] key = "inventory" -> Opt("Inventorie", "s") \cup Opt("Stock in Trad", "e")
      [] key = "propertyPlantEquipment" ->
             Opt("Property, Plant and Equipmen", "t") \cup Opt("Fixed Asset", "s")
                 \cup Opt("Tangible Asset", "s")
      [] key = "intangibleAssets" -> Opt("Intangible Asset", "s") \cup Opt("Goodwil", "l")
      [] key = "totalLiabilities" ->
             Opt("Total Liabilitie", "s") \cup Opt("Total Equity and Liabilitie", "s")
      [] key = "currentLiabilities" ->
             Opt("Current Liabilitie", "s") \cup Opt("Current Provision", "s")
      [] key = "nonCurrentLiabilities" ->
             Opt("Non-Current Liabilitie", "s") \cup Opt("Long-term Liabilitie", "s")
      [] key = "shortTermBorrowings" ->
             Opt("Short-term Borrowing", "s") \cup Opt("Short-term Loan", "s")
      [] key = "longTermBorrowings" ->
             Opt("Long-term Borrowing", "s") \cup Opt("Long-term Loan", "s")
      [] key = "tradePayables" ->
             Opt("Trade Payable", "s") \cup Opt("Accounts Payabl", "e")
                 \cup Opt("Sundry Creditor", "s")
      [] key = "provisions" -> Opt("Provision", "s") \cup Opt("Other Liabilitie", "s")
      [] key = "totalEquity" ->
             Opt("Total Equit", "y") \cup Opt("Shareholders' Equit", "y")
                 \cup Opt("Net Wort", "h")
      [] key = "shareCapital" -> Opt("Share Capita", "l") \cup Opt("Paid-up Capita", "l")
      [] key = "reservesAndSurplus" ->
             Opt("Reserves and Surplu", "s") \cup Opt("Retained Earning", "s")
      [] key = "retainedEarnings" ->
             Opt("Retained Earning", "s") \cup Opt("Accumulated Profit", "s")

EndingsOf(label) ==
    CASE label = "Non-Current Assets" -> {"Non-Current Assets", "Current Assets"}
      [] label = "Non-Current Liabilities" ->
             {"Non-Current Liabilities", "Current Liabilities"}
      [] label = "Fixed Assets" -> {"Fixed Assets"}
      [] label = "TOTAL ASSETS" -> {"Total Assets"}
      [] OTHER -> {label}

\* label \s* [:\-]? \s* rupee sign? \s* ([\d,]+\.?\d*)
PatternMatches(key, item) ==
    /\ PatternAlternatives(key) \cap EndingsOf(item.label) # {}
    /\ item.separator \in {"", ":", "-"}
    /\ item.currency \in {"", "₹"}
    /\ Captured(item.numeral) # << >>

YearLabels == {"FY", "Financial Year", "Year"}

\* the position of the first match
FirstOf(hits) == CHOOSE i \in hits : \A j \in hits : i <= j

\* a label with the characters removed that cleanPDFText does not keep
\* (it keeps word characters, white space and - . , ( ) % and currency signs)
CleanLabel(label) ==
    CASE label = "Shareholders' Equity" -> "Shareholders Equity"
      [] label = "Property, Plant & Equipment" -> "Property, Plant Equipment"
      [] OTHER -> label

\* cleanPDFText: the cleaned text and the reporting year found in it (0 for null)
cleanPDFText(text) ==
    LET cleaned == [ i \in 1..Len(text) |->
                       TextItem(CleanLabel(text[i].label),
                                IF text[i].separator = ":" THEN "" ELSE text[i].separator,
                                text[i].currency, text[i].numeral) ]
        \* (?:FY|Financial Year|Year) \s* [:\-]? \s* (\d{4})
        years == { i \in 1..Len(cleaned) :
                     /\ cleaned[i].label \in YearLabels
                     /\ cleaned[i].separator \in {"", ":", "-"}
                     /\ cleaned[i].currency = ""
                     /\ PrefixLength(cleaned[i].numeral, DigitSet) >= 4 }
    IN  [ text |-> cleaned,
          financialYear |->
              IF years = {} THEN 0
              ELSE IntegerOf(SubSeq(cleaned[FirstOf(years)].numeral, 1, 4)) ]

\* every pattern's first match, its group without commas parsed, and 0 for a
\* value that is NaN or 0 or for a pattern that does not match
extractFinancialPatterns(text) ==
    [ key \in PatternKeySet |->
        LET hits == {i \in 1..Len(text) : PatternMatches(key, text[i])}
        IN  IF hits = {} THEN Num(0)
            ELSE OrZero(parseFloat(RemoveCommas(Captured(text[FirstOf(hits)].numeral)))) ]

\* the extracted figures as integers: the files of the request handlers hold
\* whole amounts within the range of doubles
WholeFigures(extractedData) ==
    [key \in DOMAIN extractedData |-> extractedData[key].n \div extractedData[key].d]

\* processPDF: pdf-parse may fail on the file
processPDF(file) ==
    IF ~file.readable THEN Raised("Failed to process PDF file")
    ELSE Returned([text |-> cleanPDFText(file.text)])

processBalanceSheetPDF(file) ==
    LET pdfData == processPDF(file)
    IN  IF pdfData.threw THEN Raised("Failed to process balance sheet PDF")
        ELSE LET extractedData ==
                     WholeFigures(extractFinancialPatterns(pdfData.value.text.text))
             IN  Returned([ text |-> pdfData.value.text.text,
                            financialYear |-> pdfData.value.text.financialYear,
                            extractedData |-> extractedData,
                            validation |-> validateFinancialData(extractedData) ])

(***************************************************************************)
(* The BalanceSheet document.                                              *)
(***************************************************************************)
DerivedKeys == {"workingCapital", "debtToEquityRatio", "currentRatio", "quickRatio"}

\* the paths the schema declares under extractedData; a key the schema does not
\* declare is dropped when the document is constructed (strict schema)
SchemaKeys ==
    { "totalAssets", "currentAssets", "nonCurrentAssets", "cashAndCashEquivalents",
      "investments", "receivables", "inventory", "propertyPlantEquipment",
      "intangibleAssets", "totalLiabilities", "currentLiabilities",
      "nonCurrentLiabilities", "shortTermBorrowings", "longTermBorrowings",
      "tradePayables", "provisions", "totalEquity", "shareCapital",
      "reservesAndSurplus", "retainedEarnings" } \cup DerivedKeys

DefaultAnalysis ==
    [ aiGenerated |-> FALSE, keyInsights |-> << >>, riskFactors |-> << >>,
      growthMetrics |-> NoValue ]

\* new BalanceSheet({...}): the schema defaults for what the caller leaves out
NewBalanceSheet(id, financialYear, extractedData, processingStatus) ==
    [ id |-> id,
      company |-> "",
      financialYear |-> financialYear,
      extractedData |->
          [ k \in SchemaKeys |->
              IF k \in DOMAIN extractedData THEN extractedData[k]
              ELSE IF k \in DerivedKeys \ {"workingCapital"} THEN Num(0) ELSE 0 ],
      analysis |-> DefaultAnalysis,
      processingStatus |-> processingStatus,
      processingErrors |-> << >> ]

\* calculateMetrics adding to the stored working capital instead of replacing it
calculateMetricsAccumulating(doc) ==
    LET data == doc.extractedData
        withWorkingCapital ==
            [data EXCEPT !.workingCapital = @ + data.currentAssets - data.currentLiabilities]
        withDebtToEquity ==
            IF data.totalEquity > 0
                THEN [withWorkingCapital EXCEPT
                         !.debtToEquityRatio =
                             JsDiv(Num(data.totalLiabilities), Num(data.totalEquity))]
                ELSE withWorkingCapital
        withLiquidity ==
            IF data.currentLiabilities > 0
                THEN [withDebtToEquity EXCEPT
                         !.currentRatio =
                             JsDiv(Num(data.currentAssets), Num(data.currentLiabilities)),
                         !.quickRatio =
                             JsDiv(Num(data.currentAssets - data.inventory),
                                   Num(data.currentLiabilities))]
                ELSE withDebtToEquity
    IN  [doc EXCEPT !.extractedData = withLiquidity]

calculateMetrics(doc) ==
    LET data == doc.extractedData
        withWorkingCapital ==
            [data EXCEPT !.workingCapital = data.currentAssets - data.currentLiabilities]
        withDebtToEquity ==
            IF data.totalEquity > 0
                THEN [withWorkingCapital EXCEPT
                         !.debtToEquityRatio =
                             JsDiv(Num(data.totalLiabilities), Num(data.totalEquity))]
                ELSE withWorkingCapital
        withLiquidity ==
            IF data.currentLiabilities > 0
                THEN [withDebtToEquity EXCEPT
                         !.currentRatio =
                             JsDiv(Num(data.currentAssets), Num(data.currentLiabilities)),
                         !.quickRatio =
                             JsDiv(Num(data.currentAssets - data.inventory),
                                   Num(data.currentLiabilities))]
                ELSE withDebtToEquity
    IN  [doc EXCEPT !.extractedData = withLiquidity]

\* the analysis object the handlers assign from an analyzeFinancialData result
AnalysisOf(analysis) ==
    [ aiGenerated |-> TRUE,
      keyInsights |-> analysis.keyInsights,
      riskFactors |-> analysis.riskFactors,
      growthMetrics |-> [revenueGrowth |-> 0, assetGrowth |-> 0, profitGrowth |-> 0] ]

\* the analyzeFinancialData the server is built with
Analyze(data, ai) ==
    IF geminiModule = "fallback" THEN analyzeFinancialData(data, geminiApiKey, ai)
    ELSE analyzeFinancialDataNoFallback(data, geminiApiKey, ai)

\* document.save(): the collection with the document written under its id
Saved(doc) ==
    IF doc.id \in 1..Len(store) THEN [store EXCEPT ![doc.id] = doc]
    ELSE Append(store, doc)

\* a handler's locals; saved, analysed and resaved record which of its steps
\* completed (first save, analyzeFinancialData returned, save of the analysis)
IdleRequest ==
    [ op |-> "idle", pc |-> "idle", file |-> NoValue, pdfData |-> NoValue,
      balanceSheet |-> NoValue, before |-> NoValue, analysis |-> NoValue,
      error |-> "", stored |-> 0,
      saved |-> FALSE, analysed |-> FALSE, resaved |-> FALSE ]


(***************************************************************************)
(* Inputs of the engines.                                                  *)
(***************************************************************************)
MaxVal == 2

MaxNonZero == 2

MaxCalls == 2

MaxPeriods == 3

BalanceSheetFields ==
    { "totalAssets", "currentAssets", "currentLiabilities", "totalLiabilities",
      "totalEquity", "inventory", "cashAndEquivalents", "receivables",
      "propertyPlantEquipment", "tradePayables" }

IncomeStatementFields == { "revenue", "netProfit", "grossProfit", "costOfGoodsSold" }

MetricFields == BalanceSheetFields \cup IncomeStatementFields

\* StructuredFinancialData with at most MaxNonZero fields different from 0
MetricsInputs ==
    UNION { { [ balanceSheet |->
                    [f \in BalanceSheetFields |-> IF f \in S THEN g[f] ELSE 0],
                incomeStatement |->
                    [f \in IncomeStatementFields |-> IF f \in S THEN g[f] ELSE 0] ]
              : g \in [S -> 1..MaxVal] }
            : S \in {T \in SUBSET MetricFields : Cardinality(T) <= MaxNonZero} }

ValidatorAmounts == {-50, 0, 1, 19, 20, 21, 300, 400, 450, 600, 1000}

ValidatorInputs ==
    { [k \in PatternKeySet |->
          CASE k = "totalAssets" -> a
            [] k = "totalLiabilities" -> l
            [] k = "totalEquity" -> e
            [] k = "inventory" -> i
            [] OTHER -> 0]
      : a \in ValidatorAmounts, l \in ValidatorAmounts, e \in ValidatorAmounts,
        i \in {-5, 0} }

Years == {2021, 2022, 2023}

PeriodFigures ==
    { [totalAssets |-> 0, totalLiabilities |-> 0, totalEquity |-> 0, revenue |-> 0],
      [totalAssets |-> 0, totalLiabilities |-> 0, totalEquity |-> 0, revenue |-> 500],
      [totalAssets |-> 1000, totalLiabilities |-> 600, totalEquity |-> 400, revenue |-> 500],
      [totalAssets |-> 1100, totalLiabilities |-> 600, totalEquity |-> 500, revenue |-> 0] }

\* a PeriodRecord as the comparison engine takes it
PeriodRecords ==
    { [ year |-> y,
        data |-> [ balanceSheet |-> [ totalAssets |-> f.totalAssets,
                                      totalLiabilities |-> f.totalLiabilities,
                                      totalEquity |-> f.totalEquity ],
                   incomeStatement |-> [ revenue |-> f.revenue ] ] ]
      : y \in Years, f \in PeriodFigures }

TrendInputs == UNION { [1..n -> PeriodRecords] : n \in 0..MaxPeriods }

\* the stored document of a period: the balance-sheet figures are flat fields of
\* extractedData (schema defaults for the rest)
DocumentOf(p) ==
    [ financialYear |-> p.year,
      extractedData |->
          [k \in SchemaKeys \ DerivedKeys |->
              IF k \in DOMAIN p.data.balanceSheet THEN p.data.balanceSheet[k] ELSE 0] ]

DocumentsOf(ps) == [i \in 1..Len(ps) |-> DocumentOf(ps[i])]

SampleStructuredData ==
    [ balanceSheet |-> [ totalAssets |-> 1000, currentAssets |-> 500,
                         currentLiabilities |-> 250, totalLiabilities |-> 600,
                         totalEquity |-> 400, inventory |-> 100 ],
      incomeStatement |-> [ revenue |-> 2000, netProfit |-> 200 ] ]

SampleExtractedData ==
    [k \in PatternKeySet |->
        CASE k = "totalAssets" -> 1000
          [] k = "totalLiabilities" -> 600
          [] k = "totalEquity" -> 400
          [] OTHER -> 0]

AnalysisInputs == { SampleStructuredData, SampleExtractedData, EmptyObject }

PlainText == << Line("The company is in a sound position.", FALSE, "", FALSE, FALSE) >>

SectionedText ==
    << Line("Key insights", FALSE, "", FALSE, FALSE),
       Line("- Liquidity is strong", TRUE, "Liquidity is strong", FALSE, FALSE),
       Line("Risk factors:", FALSE, "", TRUE, FALSE),
       Line("* Market volatility", TRUE, "Market volatility", FALSE, FALSE),
       Line("Recommendations:", FALSE, "", FALSE, TRUE),
       Line("- Reduce debt", TRUE, "Reduce debt", FALSE, FALSE) >>

BulletText ==
    << Line("- Leverage is high", TRUE, "Leverage is high", FALSE, FALSE),
       Line("- Margins are thin", TRUE, "Margins are thin", FALSE, FALSE) >>

AiTexts == {PlainText, SectionedText, BulletText}

AiText(t) == [kind |-> "text", text |-> t, status |-> 200, quota |-> FALSE]

AiError(status, quota) == [kind |-> "error", text |-> << >>, status |-> status, quota |-> quota]

AiOutcomes ==
    { AiText(t) : t \in AiTexts }
    \cup { AiError(500, FALSE), AiError(429, TRUE), AiError(500, TRUE) }

\* records for calculateMetrics: the fields it reads, with the derived fields
\* either at their schema defaults or left from an earlier version of the data
RecordBaseData ==
    [ currentAssets : {0, 500}, currentLiabilities : {0, 250}, inventory : {0, 100},
      totalLiabilities : {0, 600}, totalEquity : {-400, 0, 400} ]

WithEarlierMetrics(data) ==
    [ k \in DOMAIN data \cup DerivedKeys |->
        IF k = "workingCapital" THEN 7
        ELSE IF k \in DerivedKeys THEN Norm(9, 2)
        ELSE data[k] ]

RecordInputs ==
    { NewBalanceSheet(1, 2023, data, "Completed") : data \in RecordBaseData }
    \cup { NewBalanceSheet(1, 2023, WithEarlierMetrics(data), "Completed") :
             data \in RecordBaseData }

\* the figures the risk handlers read, chosen to give ratios on both sides of
\* every threshold and on the thresholds themselves
RiskFigures ==
    [ currentAssets : {0, 4, 5, 6, 8}, currentLiabilities : {0, 4, 5},
      totalLiabilities : {0, 7, 14, 21, 30}, totalEquity : {0, 14},
      totalAssets : {0, 14, 30, 35} ]

\* a stored document with these figures
FlatDocument(year, figures) ==
    [ financialYear |-> year,
      extractedData |->
          [k \in SchemaKeys \ DerivedKeys |->
              IF k \in DOMAIN figures THEN figures[k] ELSE 0] ]

\* a document with the figures under extractedData.balanceSheet
NestedDocument(year, figures) ==
    [ financialYear |-> year,
      extractedData |-> [balanceSheet |-> figures] ]

RiskQueryResults ==
    LET older == [ currentAssets |-> 5, currentLiabilities |-> 5, totalLiabilities |-> 14,
                   totalEquity |-> 14, totalAssets |-> 35 ]
        latest == {g \in RiskFigures : g.totalAssets \in {30, 35} /\ g.totalEquity = 14}
    IN  { << >> }
        \cup { << FlatDocument(2023, f) >> : f \in RiskFigures }
        \cup { << NestedDocument(2023, f) >> : f \in RiskFigures }
        \cup { << FlatDocument(2023, f), FlatDocument(2022, older) >> : f \in latest }
        \cup { << NestedDocument(2023, f), NestedDocument(2022, older) >> : f \in latest }

\* the figures of a period the growth handler reads
GrowthFigures ==
    { [totalAssets |-> 1000000, totalLiabilities |-> 600, totalEquity |-> 400],
      [totalAssets |-> 1100000, totalLiabilities |-> 0, totalEquity |-> 0],
      [totalAssets |-> 1331000, totalLiabilities |-> 1350, totalEquity |-> 900],
      [totalAssets |-> 0, totalLiabilities |-> 0, totalEquity |-> -400] }

\* the query results: up to three documents of distinct years, newest first
GrowthQueryResults ==
    { << >> }
    \cup { << FlatDocument(y, f) >> : y \in Years, f \in GrowthFigures }
    \cup { << FlatDocument(y[1], f), FlatDocument(y[2], g) >> :
             y \in { <<2023, 2022>>, <<2023, 2021>>, <<2022, 2021>> },
             f \in GrowthFigures, g \in GrowthFigures }
    \cup { << FlatDocument(2023, f), FlatDocument(2022, g), FlatDocument(2021, h) >> :
             f \in GrowthFigures, g \in GrowthFigures, h \in GrowthFigures }

\* the longest text handed to the extractor, in items
MaxItems == 3

\* items in the forms the patterns accept, one of them with no field's label and
\* one with a numeral of more digits than a double can hold
ExtractItems ==
    { TextItem("Total Assets", "", "", [i \in 1..(DoubleDigits + 1) |-> "9"]),
      TextItem("Total Assets", ":", "₹", << "1", ",", "2", "3", "4", ",", "5", "0", "0" >>),
      Item("Total Assets", 500),
      TextItem("TOTAL ASSETS", "-", "", << "2", ",", "0", "0", "0" >>),
      TextItem("Total Assets", "", "", << "," >>),
      Item("Non-Current Assets", 700),
      Item("Current Assets", 500),
      TextItem("Shareholders' Equity", ":", "", << "4", "0", "0" >>),
      TextItem("Total Equity", "", "", << "1", "2", ".", "5" >>),
      Item("Notes", 7) }

ExtractTexts == UNION { [1..n -> ExtractItems] : n \in 0..MaxItems }

(***************************************************************************)
(* The engines called on their inputs.                                     *)
(***************************************************************************)
\* nothing in flight besides the engines and the single-request handlers
OthersIdle ==
    /\ uploads = << >>
    /\ collection = << >>
    /\ companies = << >>
    /\ companyUsers = << >>
    /\ hierarchy = NoValue
    /\ chat = NoValue
    /\ senders = << >>

InitPure ==
    /\ mode \in {"metrics", "validate", "trend", "analyze", "record", "risk", "growth",
                 "extract"}
    /\ d \in (IF mode = "metrics" THEN MetricsInputs ELSE {EmptyObject})
    /\ vdata \in (IF mode = "validate" THEN ValidatorInputs ELSE {EmptyObject})
    /\ sheets \in (IF mode = "trend" THEN TrendInputs ELSE {<< >>})
    /\ aiInput \in (IF mode = "analyze" THEN AnalysisInputs ELSE {EmptyObject})
    /\ record \in (IF mode = "record" THEN RecordInputs ELSE {NoValue})
    /\ recordCalls = 0
    /\ riskSheets \in (IF mode = "risk" THEN RiskQueryResults ELSE {<< >>})
    /\ riskResult = NoValue
    /\ growthSheets \in (IF mode = "growth" THEN GrowthQueryResults ELSE {<< >>})
    /\ growthResult = NoValue
    /\ extractText \in (IF mode = "extract" THEN ExtractTexts ELSE {<< >>})
    /\ extractResult = NoValue
    /\ ratios = NoValue
    /\ ratioCalls = 0
    /\ validation = NoValue
    /\ trends = NoValue
    /\ aiResult = NoValue
    /\ store = << >>
    /\ req = IdleRequest
    /\ response = NoValue
    /\ aiCalls = 0
    /\ started = 0
    /\ lastReprocess = NoValue
    /\ geminiModule = "fallback"
    /\ geminiApiKey = FALSE
    /\ OthersIdle

\* calculateAdvancedRatios writing its guarded defaults back into its argument
CallCalculateAdvancedRatiosInPlace ==
    /\ mode = "metrics"
    /\ ratioCalls < MaxCalls
    /\ ratios' = [by |-> "calculateAdvancedRatios", value |-> calculateAdvancedRatios(d)]
    /\ d' = [d EXCEPT !.balanceSheet.totalAssets = IF @ = 0 THEN 1 ELSE @]
    /\ ratioCalls' = ratioCalls + 1
    /\ UNCHANGED <<mode, vdata, validation, sheets, trends, aiInput, aiResult>>
    /\ UNCHANGED recordVars
    /\ UNCHANGED riskVars
    /\ UNCHANGED growthVars
    /\ UNCHANGED extractVars
    /\ UNCHANGED pipeVars

CallCalculateAdvancedRatios ==
    /\ mode = "metrics"
    /\ ratioCalls < MaxCalls
    /\ ratios' = [by |-> "calculateAdvancedRatios", value |-> calculateAdvancedRatios(d)]
    /\ ratioCalls' = ratioCalls + 1
    /\ UNCHANGED <<mode, d, vdata, validation, sheets, trends, aiInput, aiResult>>
    /\ UNCHANGED recordVars
    /\ UNCHANGED riskVars
    /\ UNCHANGED growthVars
    /\ UNCHANGED extractVars
    /\ UNCHANGED pipeVars

CallCalculateAdvancedMetrics ==
    /\ mode = "metrics"
    /\ ratioCalls < MaxCalls
    /\ ratios' = [by |-> "calculateAdvancedMetrics", value |-> calculateAdvancedMetrics(d)]
    /\ ratioCalls' = ratioCalls + 1
    /\ UNCHANGED <<mode, d, vdata, validation, sheets, trends, aiInput, aiResult>>
    /\ UNCHANGED recordVars
    /\ UNCHANGED riskVars
    /\ UNCHANGED growthVars
    /\ UNCHANGED extractVars
    /\ UNCHANGED pipeVars

CallValidateFinancialData ==
    /\ mode = "validate"
    /\ validation = NoValue
    /\ validation' = validateFinancialData(vdata)
    /\ UNCHANGED <<mode, d, ratios, ratioCalls, vdata, sheets, trends, aiInput, aiResult>>
    /\ UNCHANGED recordVars
    /\ UNCHANGED riskVars
    /\ UNCHANGED growthVars
    /\ UNCHANGED extractVars
    /\ UNCHANGED pipeVars

\* the sort inside calculateTrendAnalysis reorders the caller's array
CallCalculateTrendAnalysis ==
    /\ mode = "trend"
    /\ trends = NoValue
    /\ trends' = [by |-> "calculateTrendAnalysis", value |-> calculateTrendAnalysis(sheets)]
    /\ sheets' = IF Len(sheets) < 2 THEN sheets ELSE SortByYear(sheets)
    /\ UNCHANGED <<mode, d, ratios, ratioCalls, vdata, validation, aiInput, aiResult>>
    /\ UNCHANGED recordVars
    /\ UNCHANGED riskVars
    /\ UNCHANGED growthVars
    /\ UNCHANGED extractVars
    /\ UNCHANGED pipeVars

\* generateComparativeAnalysis on the caller's array: the trend computation
\* inside it sorts that array
CallGenerateComparativeAnalysis ==
    /\ mode = "trend"
    /\ trends = NoValue
    /\ \E apiKey \in BOOLEAN, ai \in AiOutcomes :
           trends' = [ by |-> "generateComparativeAnalysis", apiKey |-> apiKey,
                       ai |-> ai.kind,
                       comparison |-> generateComparativeAnalysis(sheets, apiKey, ai),
                       value |-> generateComparativeAnalysis(sheets, apiKey, ai).trends ]
    /\ sheets' = AfterTrendAnalysis(sheets)
    /\ UNCHANGED <<mode, d, ratios, ratioCalls, vdata, validation, aiInput, aiResult>>
    /\ UNCHANGED recordVars
    /\ UNCHANGED riskVars
    /\ UNCHANGED growthVars
    /\ UNCHANGED extractVars
    /\ UNCHANGED pipeVars

CallGrowthRoute ==
    /\ mode = "trend"
    /\ trends = NoValue
    /\ trends' = [by |-> "growthRoute", value |-> growthRoute(DocumentsOf(sheets))]
    /\ UNCHANGED <<mode, d, ratios, ratioCalls, vdata, validation, sheets, aiInput, aiResult>>
    /\ UNCHANGED recordVars
    /\ UNCHANGED riskVars
    /\ UNCHANGED growthVars
    /\ UNCHANGED extractVars
    /\ UNCHANGED pipeVars

CallGrowthRouteNested ==
    /\ mode = "trend"
    /\ trends = NoValue
    /\ trends' = [by |-> "growthRouteNested",
                  value |-> growthRouteNested(DocumentsOf(sheets))]
    /\ UNCHANGED <<mode, d, ratios, ratioCalls, vdata, validation, sheets, aiInput, aiResult>>
    /\ UNCHANGED recordVars
    /\ UNCHANGED riskVars
    /\ UNCHANGED growthVars
    /\ UNCHANGED extractVars
    /\ UNCHANGED pipeVars

CallAnalyzeFinancialData ==
    /\ mode = "analyze"
    /\ aiResult = NoValue
    /\ \E apiKey \in BOOLEAN, ai \in AiOutcomes :
           aiResult' = [ by |-> "analyzeFinancialData", apiKey |-> apiKey, ai |-> ai,
                         result |-> analyzeFinancialData(aiInput, apiKey, ai) ]
    /\ UNCHANGED <<mode, d, ratios, ratioCalls, vdata, validation, sheets, trends, aiInput>>
    /\ UNCHANGED recordVars
    /\ UNCHANGED riskVars
    /\ UNCHANGED growthVars
    /\ UNCHANGED extractVars
    /\ UNCHANGED pipeVars

CallAnalyzeFinancialDataNoFallback ==
    /\ mode = "analyze"
    /\ aiResult = NoValue
    /\ \E apiKey \in BOOLEAN, ai \in AiOutcomes :
           /\ ~apiKey => ai.kind = "error"
           /\ aiResult' = [ by |-> "analyzeFinancialDataNoFallback", apiKey |-> apiKey,
                            ai |-> ai,
                            result |-> analyzeFinancialDataNoFallback(aiInput, apiKey, ai) ]
    /\ UNCHANGED <<mode, d, ratios, ratioCalls, vdata, validation, sheets, trends, aiInput>>
    /\ UNCHANGED recordVars
    /\ UNCHANGED riskVars
    /\ UNCHANGED growthVars
    /\ UNCHANGED extractVars
    /\ UNCHANGED pipeVars

CallCalculateMetrics ==
    /\ mode = "record"
    /\ recordCalls < MaxCalls
    /\ record' = calculateMetrics(record)
    /\ recordCalls' = recordCalls + 1
    /\ UNCHANGED <<mode, d, ratios, ratioCalls, vdata, validation, sheets, trends, aiInput,
                   aiResult>>
    /\ UNCHANGED riskVars
    /\ UNCHANGED growthVars
    /\ UNCHANGED extractVars
    /\ UNCHANGED pipeVars

CallRiskRouteNested ==
    /\ mode = "risk"
    /\ riskResult = NoValue
    /\ riskResult' = [by |-> "riskRouteNested", value |-> riskRouteNested(riskSheets)]
    /\ UNCHANGED <<mode, d, ratios, ratioCalls, vdata, validation, sheets, trends, aiInput,
                   aiResult, riskSheets>>
    /\ UNCHANGED growthVars
    /\ UNCHANGED extractVars
    /\ UNCHANGED recordVars
    /\ UNCHANGED pipeVars

CallRiskRoute ==
    /\ mode = "risk"
    /\ riskResult = NoValue
    \* a document of the schema has its fields directly under extractedData
    /\ \A i \in 1..Len(riskSheets) : "balanceSheet" \notin DOMAIN riskSheets[i].extractedData
    /\ riskResult' = [by |-> "riskRoute", value |-> riskRoute(riskSheets)]
    /\ UNCHANGED <<mode, d, ratios, ratioCalls, vdata, validation, sheets, trends, aiInput,
                   aiResult, riskSheets>>
    /\ UNCHANGED growthVars
    /\ UNCHANGED extractVars
    /\ UNCHANGED recordVars
    /\ UNCHANGED pipeVars

CallGrowthRouteResponse ==
    /\ mode = "growth"
    /\ growthResult = NoValue
    /\ growthResult' = growthRouteResponse(growthSheets)
    /\ UNCHANGED <<mode, d, ratios, ratioCalls, vdata, validation, sheets, trends, aiInput,
                   aiResult, growthSheets>>
    /\ UNCHANGED extractVars
    /\ UNCHANGED recordVars
    /\ UNCHANGED riskVars
    /\ UNCHANGED pipeVars

\* extractFinancialPatterns on a text as it is
CallExtractFinancialPatterns ==
    /\ mode = "extract"
    /\ extractResult = NoValue
    /\ extractResult' = [ by |-> "extractFinancialPatterns",
                          text |-> extractText,
                          value |-> extractFinancialPatterns(extractText) ]
    /\ UNCHANGED <<mode, d, ratios, ratioCalls, vdata, validation, sheets, trends, aiInput,
                   aiResult, extractText>>
    /\ UNCHANGED recordVars
    /\ UNCHANGED riskVars
    /\ UNCHANGED growthVars
    /\ UNCHANGED pipeVars

\* extractFinancialPatterns(pdfData.text.text): on the text cleanPDFText returned
CallExtractFromCleanedText ==
    /\ mode = "extract"
    /\ extractResult = NoValue
    /\ extractResult' = [ by |-> "processPDF",
                          text |-> cleanPDFText(extractText).text,
                          value |-> extractFinancialPatterns(cleanPDFText(extractText).text) ]
    /\ UNCHANGED <<mode, d, ratios, ratioCalls, vdata, validation, sheets, trends, aiInput,
                   aiResult, extractText>>
    /\ UNCHANGED recordVars
    /\ UNCHANGED riskVars
    /\ UNCHANGED growthVars
    /\ UNCHANGED pipeVars

NextPure ==
    \/ CallExtractFinancialPatterns
    \/ CallExtractFromCleanedText
    \/ CallGrowthRouteResponse
    \/ CallRiskRouteNested
    \/ CallRiskRoute
    \/ CallCalculateMetrics
    \/ CallCalculateAdvancedRatios
    \/ CallCalculateAdvancedMetrics
    \/ CallValidateFinancialData
    \/ CallCalculateTrendAnalysis
    \/ CallGenerateComparativeAnalysis
    \/ CallGrowthRoute
    \/ CallGrowthRouteNested
    \/ CallAnalyzeFinancialData
    \/ CallAnalyzeFinancialDataNoFallback

SpecPure == InitPure /\ [][NextPure]_vars

(***************************************************************************)
(* The request handlers: POST /upload and POST /:id/reprocess.  One        *)
(* request is handled at a time; each action is one stretch of a handler   *)
(* between two awaited calls.  A save or a lookup may be rejected by the   *)
(* database, and the generateContent call may fail.                        *)
(***************************************************************************)
MaxRequests == 3
MaxUploads == 1

CurrentYear == 2026

Companies == {"c1", "c2"}

Users ==
    { [role |-> "Group Executive", company |-> "c2", parentCompany |-> ""],
      [role |-> "Company CEO", company |-> "c1", parentCompany |-> ""],
      [role |-> "Analyst", company |-> "c2", parentCompany |-> "c1"],
      [role |-> "Analyst", company |-> "c2", parentCompany |-> ""] }

File(readable, text) == [readable |-> readable, text |-> text]

Files ==
    { File(FALSE, << >>),
      File(TRUE, << >>),
      File(TRUE, << Item("Shareholders' Equity", 400), Item("Current Assets", 500) >>),
      File(TRUE, << Item("Financial Year", 2023), Item("Total Assets", 1000),
                    Item("Total Liabilities", 600), Item("Total Equity", 400),
                    Item("Current Assets", 500), Item("Current Liabilities", 250),
                    Item("Inventories", 100) >>),
      File(TRUE, << Item("Total Assets", 1000), Item("Total Assets", 2000),
                    Item("Total Liabilities", 600), Item("Total Equity", 300),
                    Item("Non-Current Assets", 700) >>) }

BodyYears == {0, 2024}

CompanyIds == {"c1", "c9"}

\* how a generateContent call of a handler can end; without an API key the
\* call is rejected
PipelineAiOutcomes ==
    { a \in {AiText(SectionedText), AiText(PlainText), AiError(500, FALSE)} :
        geminiApiKey \/ a.kind = "error" }

\* the access check of POST /upload
UploadDenied(user, companyId) ==
    /\ user.role # "Group Executive"
    /\ user.company # companyId
    /\ user.parentCompany # companyId

\* the access check of the handlers that work on a stored document
DocumentDenied(user, balanceSheet) ==
    /\ user.role # "Group Executive"
    /\ user.company # balanceSheet.company

Respond(status, message) == [status |-> status, message |-> message]

CanRequest == /\ req.pc \in {"idle", "done"}
              /\ started < MaxRequests

Done(r) == [r EXCEPT !.pc = "done"]

\* POST /upload up to the first save: the checks on the request, the PDF
\* processing, the new document and its derived metrics
UploadRequest ==
    /\ CanRequest
    /\ Len(store) < MaxUploads
    /\ started' = started + 1
    /\ aiCalls' = 0
    /\ LET begun == [IdleRequest EXCEPT !.op = "upload", !.stored = Len(store)]
           Refuse(status, message) ==
               /\ response' = Respond(status, message)
               /\ req' = Done(begun)
       IN  \E hasFile \in BOOLEAN :
             IF ~hasFile THEN Refuse(400, "Please upload a PDF file")
             ELSE \E companyId \in CompanyIds, companyLookup \in {"ok", "fail"} :
               IF companyLookup = "fail"
                   THEN Refuse(500, "Failed to upload balance sheet")
               ELSE IF companyId \notin Companies THEN Refuse(404, "Company not found")
               ELSE \E denied \in { UploadDenied(user, companyId) : user \in Users } :
                 IF denied THEN Refuse(403, "Access denied to this company")
                 ELSE \E file \in Files, financialYear \in BodyYears :
                   LET pdfData == processBalanceSheetPDF(file)
                       year == IF financialYear # 0 THEN financialYear
                               ELSE IF pdfData.value.financialYear # 0
                                   THEN pdfData.value.financialYear
                               ELSE CurrentYear
                       document ==
                           [ NewBalanceSheet(Len(store) + 1, year,
                                             pdfData.value.extractedData, "Completed")
                             EXCEPT !.company = companyId ]
                   IN  IF pdfData.threw
                           THEN /\ response' = Respond(500, "Failed to upload balance sheet")
                                /\ req' = [Done(begun) EXCEPT !.file = file]
                           ELSE /\ response' = NoValue
                                /\ req' = [begun EXCEPT
                                              !.pc = "firstSave",
                                              !.file = file,
                                              !.pdfData = pdfData.value,
                                              !.balanceSheet = calculateMetrics(document)]
    /\ UNCHANGED <<store, lastReprocess, geminiModule, geminiApiKey>>
    /\ UNCHANGED pureVars

\* the first save followed by the analysis whatever the validation said
UploadFirstSaveUngated ==
    /\ req.op = "upload" /\ req.pc = "firstSave"
    /\ \E save \in {"ok", "fail"} :
         IF save = "ok"
             THEN /\ store' = Saved(req.balanceSheet)
                  /\ req' = [req EXCEPT !.saved = TRUE, !.pc = "analyze"]
                  /\ response' = response
             ELSE /\ response' = Respond(500, "Failed to upload balance sheet")
                  /\ req' = Done(req)
                  /\ store' = store
    /\ UNCHANGED <<aiCalls, started, lastReprocess, geminiModule, geminiApiKey>>
    /\ UNCHANGED pureVars

\* await balanceSheet.save(), then the test of pdfData.validation.isValid
UploadFirstSave ==
    /\ req.op = "upload" /\ req.pc = "firstSave"
    /\ \E save \in {"ok", "fail"} :
         IF save = "ok"
             THEN /\ store' = Saved(req.balanceSheet)
                  /\ req' = [req EXCEPT !.saved = TRUE,
                                        !.pc = IF req.pdfData.validation.isValid
                                                   THEN "analyze" ELSE "respond"]
                  /\ response' = response
             ELSE /\ response' = Respond(500, "Failed to upload balance sheet")
                  /\ req' = Done(req)
                  /\ store' = store
    /\ UNCHANGED <<aiCalls, started, lastReprocess, geminiModule, geminiApiKey>>
    /\ UNCHANGED pureVars

\* analysis = await analyzeFinancialData(pdfData.extractedData) and the
\* assignment of balanceSheet.analysis; an error goes to the inner catch
UploadAnalyze ==
    /\ req.op = "upload" /\ req.pc = "analyze"
    /\ aiCalls' = aiCalls + 1
    /\ \E ai \in PipelineAiOutcomes :
         LET result == Analyze(req.pdfData.extractedData, ai)
         IN  IF result.threw
                 THEN req' = [req EXCEPT !.pc = "respond", !.error = result.message]
                 ELSE req' = [req EXCEPT
                                 !.pc = "secondSave",
                                 !.analysed = TRUE,
                                 !.analysis = result.value,
                                 !.balanceSheet.analysis = AnalysisOf(result.value)]
    /\ UNCHANGED <<store, response, started, lastReprocess, geminiModule, geminiApiKey>>
    /\ UNCHANGED pureVars

\* the second save outside the inner try: its rejection reaches the outer catch
UploadSecondSaveUncaught ==
    /\ req.op = "upload" /\ req.pc = "secondSave"
    /\ \E save \in {"ok", "fail"} :
         IF save = "ok"
             THEN /\ store' = Saved(req.balanceSheet)
                  /\ req' = [req EXCEPT !.pc = "respond", !.resaved = TRUE]
                  /\ response' = response
             ELSE /\ store' = store
                  /\ req' = [Done(req) EXCEPT !.error = "save failed"]
                  /\ response' = Respond(500, "Failed to upload balance sheet")
    /\ UNCHANGED <<aiCalls, started, lastReprocess, geminiModule, geminiApiKey>>
    /\ UNCHANGED pureVars

\* the second await balanceSheet.save(), inside the inner try
UploadSecondSave ==
    /\ req.op = "upload" /\ req.pc = "secondSave"
    /\ \E save \in {"ok", "fail"} :
         IF save = "ok"
             THEN /\ store' = Saved(req.balanceSheet)
                  /\ req' = [req EXCEPT !.pc = "respond", !.resaved = TRUE]
             ELSE /\ store' = store
                  /\ req' = [req EXCEPT !.pc = "respond", !.error = "save failed"]
    /\ UNCHANGED <<response, aiCalls, started, lastReprocess, geminiModule, geminiApiKey>>
    /\ UNCHANGED pureVars

\* res.status(201).json(...) with the fields of the document in memory
UploadRespond ==
    /\ req.op = "upload" /\ req.pc = "respond"
    /\ response' = [ status |-> 201,
                     message |-> "Balance sheet uploaded successfully",
                     id |-> req.balanceSheet.id,
                     financialYear |-> req.balanceSheet.financialYear,
                     processingStatus |-> req.balanceSheet.processingStatus,
                     extractedData |-> req.balanceSheet.extractedData,
                     analysis |-> req.balanceSheet.analysis,
                     validation |-> req.pdfData.validation ]
    /\ req' = Done(req)
    /\ UNCHANGED <<store, aiCalls, started, lastReprocess, geminiModule, geminiApiKey>>
    /\ UNCHANGED pureVars


(***************************************************************************)
(* Properties of the engines.                                              *)
\* reprocessBalanceSheet up to its first save: the lookup, the access check
\* and processingStatus = Processing
ReprocessRequest ==
    /\ CanRequest
    /\ started' = started + 1
    /\ aiCalls' = 0
    /\ LET begun == [IdleRequest EXCEPT !.op = "reprocess", !.stored = Len(store)]
           Refuse(status, message) ==
               /\ response' = Respond(status, message)
               /\ req' = Done(begun)
       IN  \E id \in 1..(Len(store) + 1), lookup \in {"ok", "fail"} :
             IF lookup = "fail" THEN Refuse(500, "Failed to reprocess balance sheet")
             ELSE IF id \notin 1..Len(store) THEN Refuse(404, "Resource not found")
             ELSE \E denied \in { DocumentDenied(user, store[id]) : user \in Users } :
               IF denied THEN Refuse(403, "Access denied to this balance sheet")
               ELSE /\ response' = NoValue
                    /\ req' = [begun EXCEPT
                                  !.pc = "saveProcessing",
                                  !.before = store[id],
                                  !.balanceSheet =
                                      [store[id] EXCEPT !.processingStatus = "Processing"]]
    /\ UNCHANGED <<store, lastReprocess, geminiModule, geminiApiKey>>
    /\ UNCHANGED pureVars

\* await balanceSheet.save() of the Processing status; a rejection goes to
\* the outer catch
ReprocessSaveProcessing ==
    /\ req.op = "reprocess" /\ req.pc = "saveProcessing"
    /\ \E save \in {"ok", "fail"} :
         IF save = "ok"
             THEN /\ store' = Saved(req.balanceSheet)
                  /\ req' = [req EXCEPT !.pc = "analyze", !.saved = TRUE]
                  /\ response' = response
             ELSE /\ store' = store
                  /\ req' = Done(req)
                  /\ response' = Respond(500, "Failed to reprocess balance sheet")
    /\ UNCHANGED <<aiCalls, started, lastReprocess, geminiModule, geminiApiKey>>
    /\ UNCHANGED pureVars

\* the reprocess adding the new insights and risks to the stored ones
ReprocessAnalyzeMerging ==
    /\ req.op = "reprocess" /\ req.pc = "analyze"
    /\ aiCalls' = aiCalls + 1
    /\ \E ai \in PipelineAiOutcomes :
         LET result == Analyze(req.balanceSheet.extractedData, ai)
             merged ==
                 [ AnalysisOf(result.value) EXCEPT
                     !.keyInsights = req.balanceSheet.analysis.keyInsights \o @,
                     !.riskFactors = req.balanceSheet.analysis.riskFactors \o @ ]
         IN  IF result.threw
                 THEN req' = [req EXCEPT !.pc = "markFailed", !.error = result.message]
                 ELSE req' = [req EXCEPT
                                 !.pc = "saveCompleted",
                                 !.analysed = TRUE,
                                 !.analysis = result.value,
                                 !.balanceSheet.analysis = merged,
                                 !.balanceSheet.processingStatus = "Completed"]
    /\ UNCHANGED <<store, response, started, lastReprocess, geminiModule, geminiApiKey>>
    /\ UNCHANGED pureVars

\* analysis = await analyzeFinancialData(balanceSheet.extractedData), the new
\* analysis object and processingStatus = Completed
ReprocessAnalyze ==
    /\ req.op = "reprocess" /\ req.pc = "analyze"
    /\ aiCalls' = aiCalls + 1
    /\ \E ai \in PipelineAiOutcomes :
         LET result == Analyze(req.balanceSheet.extractedData, ai)
         IN  IF result.threw
                 THEN req' = [req EXCEPT !.pc = "markFailed", !.error = result.message]
                 ELSE req' = [req EXCEPT
                                 !.pc = "saveCompleted",
                                 !.analysed = TRUE,
                                 !.analysis = result.value,
                                 !.balanceSheet.analysis = AnalysisOf(result.value),
                                 !.balanceSheet.processingStatus = "Completed"]
    /\ UNCHANGED <<store, response, started, lastReprocess, geminiModule, geminiApiKey>>
    /\ UNCHANGED pureVars

\* await balanceSheet.save() of the analysis and the success response; a
\* rejection goes to the inner catch
ReprocessSaveCompleted ==
    /\ req.op = "reprocess" /\ req.pc = "saveCompleted"
    /\ \E save \in {"ok", "fail"} :
         IF save = "ok"
             THEN /\ store' = Saved(req.balanceSheet)
                  /\ req' = [Done(req) EXCEPT !.resaved = TRUE]
                  /\ response' = [ status |-> 200,
                                   message |-> "Balance sheet reprocessed successfully",
                                   id |-> req.balanceSheet.id,
                                   analysis |-> req.balanceSheet.analysis,
                                   processingStatus |-> req.balanceSheet.processingStatus ]
                  /\ lastReprocess' = [ id |-> req.balanceSheet.id,
                                        output |-> req.analysis,
                                        analysis |-> req.balanceSheet.analysis,
                                        extractedData |-> req.balanceSheet.extractedData ]
             ELSE /\ store' = store
                  /\ req' = [req EXCEPT !.pc = "markFailed", !.error = "save failed"]
                  /\ response' = response
                  /\ lastReprocess' = lastReprocess
    /\ UNCHANGED <<aiCalls, started, geminiModule, geminiApiKey>>
    /\ UNCHANGED pureVars

\* catch (aiError): processingStatus = Failed, processingErrors, save and the
\* error response; a rejection of this save goes to the outer catch
ReprocessMarkFailed ==
    /\ req.op = "reprocess" /\ req.pc = "markFailed"
    /\ \E save \in {"ok", "fail"} :
         LET failed == [req.balanceSheet EXCEPT !.processingStatus = "Failed",
                                                !.processingErrors = <<req.error>>]
         IN  /\ req' = [Done(req) EXCEPT !.balanceSheet = failed]
             /\ IF save = "ok"
                    THEN /\ store' = Saved(failed)
                         /\ response' = Respond(500, "AI processing failed")
                    ELSE /\ store' = store
                         /\ response' = Respond(500, "Failed to reprocess balance sheet")
    /\ UNCHANGED <<aiCalls, started, lastReprocess, geminiModule, geminiApiKey>>
    /\ UNCHANGED pureVars

\* the extractedData of PUT /:id bodies (NoValue: the body has none)
UpdatePayloads ==
    { NoValue,
      [currentLiabilities |-> 0, totalEquity |-> 0],
      [currentAssets |-> 800] }

\* { ...balanceSheet.extractedData, ...extractedData }
Spread(old, new) ==
    [ k \in DOMAIN old \cup DOMAIN new |-> IF k \in DOMAIN new THEN new[k] ELSE old[k] ]

\* authorize('Company CEO', 'Group Executive')
RouteAuthorized(user) == user.role \in {"Company CEO", "Group Executive"}

AuthorizedUsers == { user \in Users : RouteAuthorized(user) }

\* PUT /:id up to its save: authorize('Company CEO', 'Group Executive'), the
\* lookup, the access check, the merge of extractedData and calculateMetrics
UpdateRequest ==
    /\ CanRequest
    /\ started' = started + 1
    /\ aiCalls' = 0
    /\ LET begun == [IdleRequest EXCEPT !.op = "update", !.stored = Len(store)]
           Refuse(status, message) ==
               /\ response' = Respond(status, message)
               /\ req' = Done(begun)
       IN  \E authorized \in { RouteAuthorized(user) : user \in Users } :
             IF ~authorized
                 THEN Refuse(403, "User role is not authorized to access this route")
             ELSE \E id \in 1..(Len(store) + 1), lookup \in {"ok", "fail"} :
               IF lookup = "fail" THEN Refuse(500, "Failed to update balance sheet")
               ELSE IF id \notin 1..Len(store) THEN Refuse(404, "Balance sheet not found")
               ELSE \E denied \in { DocumentDenied(user, store[id]) :
                                      user \in AuthorizedUsers } :
                 IF denied THEN Refuse(403, "Access denied to this balance sheet")
                 ELSE \E extractedData \in UpdatePayloads :
                   LET merged == [store[id] EXCEPT
                                     !.extractedData = Spread(@, extractedData)]
                   IN  /\ response' = NoValue
                       /\ req' = [begun EXCEPT
                                     !.pc = "updateSave",
                                     !.before = store[id],
                                     !.balanceSheet =
                                         IF extractedData # NoValue
                                             THEN calculateMetrics(merged)
                                             ELSE store[id]]
    /\ UNCHANGED <<store, lastReprocess, geminiModule, geminiApiKey>>
    /\ UNCHANGED pureVars

\* await balanceSheet.save() and the response of PUT /:id
UpdateSave ==
    /\ req.op = "update" /\ req.pc = "updateSave"
    /\ \E save \in {"ok", "fail"} :
         IF save = "ok"
             THEN /\ store' = Saved(req.balanceSheet)
                  /\ req' = [Done(req) EXCEPT !.saved = TRUE]
                  /\ response' = [ status |-> 200,
                                   message |-> "Balance sheet updated successfully",
                                   balanceSheet |-> req.balanceSheet ]
                  /\ lastReprocess' =
                         IF lastReprocess # NoValue /\ lastReprocess.id = req.balanceSheet.id
                             THEN NoValue ELSE lastReprocess
             ELSE /\ store' = store
                  /\ req' = Done(req)
                  /\ response' = Respond(500, "Failed to update balance sheet")
                  /\ lastReprocess' = lastReprocess
    /\ UNCHANGED <<aiCalls, started, geminiModule, geminiApiKey>>
    /\ UNCHANGED pureVars

(***************************************************************************)
(* The read endpoints: one find, then the response.                        *)
(***************************************************************************)
\* authorizeCompanyAccess lets the request through (the pre-save hook gives
\* canViewAllCompanies to the Group Executive role and to no other)
CompanyAccess(user, companyId) ==
    \/ user.role = "Group Executive"
    \/ user.company = companyId
    \/ user.parentCompany = companyId

\* BalanceSheet.find({ company: companyId }).sort({ financialYear: -1 }).limit(3)
CompanySheets(companyId) ==
    Take(SortByFinancialYearDesc(SelectSeq(store, LAMBDA doc : doc.company = companyId)), 3)

\* what a read endpoint answers: the caller, the company whose data was asked
\* for and the data returned (<< >>: none)
ReadResponse(endpoint, user, companyId, status, data) ==
    [ status |-> status, endpoint |-> endpoint, caller |-> user, company |-> companyId,
      data |-> data ]

ReadDone ==
    /\ CanRequest
    /\ started' = started + 1
    /\ aiCalls' = 0
    /\ req' = Done([IdleRequest EXCEPT !.op = "read", !.stored = Len(store)])
    /\ UNCHANGED <<store, lastReprocess, geminiModule, geminiApiKey>>
    /\ UNCHANGED pureVars

\* GET /risk/:companyId of the analysis routes behind protect alone
GetRiskNested ==
    /\ ReadDone
    /\ \E user \in Users, companyId \in CompanyIds, lookup \in {"ok", "fail"} :
         LET result == riskRouteNested(CompanySheets(companyId))
         IN  response' =
                 IF lookup = "fail"
                     THEN ReadResponse("risk", user, companyId, 500, << >>)
                 ELSE ReadResponse("risk", user, companyId, result.status,
                                   IF result.status = 200 THEN << result.riskMetrics >>
                                   ELSE << >>)

\* GET /metrics/:balanceSheetId behind protect alone
GetMetrics ==
    /\ ReadDone
    /\ \E user \in Users, id \in 1..(Len(store) + 1), lookup \in {"ok", "fail"} :
         response' =
             IF lookup = "fail" THEN ReadResponse("metrics", user, "", 500, << >>)
             ELSE IF id \notin 1..Len(store)
                 THEN ReadResponse("metrics", user, "", 404, << >>)
             ELSE ReadResponse("metrics", user, store[id].company, 200,
                               << calculateAdvancedMetrics(store[id].extractedData) >>)

\* GET /risk/:companyId of the analysis routes behind protect and
\* authorizeCompanyAccess
GetRisk ==
    /\ ReadDone
    /\ \E user \in Users, companyId \in CompanyIds, lookup \in {"ok", "fail"} :
         LET result == riskRoute(CompanySheets(companyId))
         IN  response' =
                 IF ~CompanyAccess(user, companyId)
                     THEN ReadResponse("risk", user, companyId, 403, << >>)
                 ELSE IF lookup = "fail"
                     THEN ReadResponse("risk", user, companyId, 500, << >>)
                 ELSE ReadResponse("risk", user, companyId, result.status,
                                   IF result.status = 200 THEN << result >> ELSE << >>)

\* GET /:id of the balance-sheet routes: the access check follows the lookup
GetBalanceSheet ==
    /\ ReadDone
    /\ \E user \in Users, id \in 1..(Len(store) + 1), lookup \in {"ok", "fail"} :
         response' =
             IF lookup = "fail" THEN ReadResponse("balanceSheet", user, "", 500, << >>)
             ELSE IF id \notin 1..Len(store)
                 THEN ReadResponse("balanceSheet", user, "", 404, << >>)
             ELSE IF ~CompanyAccess(user, store[id].company)
                 THEN ReadResponse("balanceSheet", user, store[id].company, 403, << >>)
             ELSE ReadResponse("balanceSheet", user, store[id].company, 200, << store[id] >>)

Init ==
    /\ mode = "pipeline"
    /\ d = NoValue
    /\ ratios = NoValue
    /\ ratioCalls = 0
    /\ vdata = NoValue
    /\ validation = NoValue
    /\ sheets = << >>
    /\ trends = NoValue
    /\ aiInput = NoValue
    /\ aiResult = NoValue
    /\ record = NoValue
    /\ recordCalls = 0
    /\ riskSheets = << >>
    /\ riskResult = NoValue
    /\ growthSheets = << >>
    /\ growthResult = NoValue
    /\ extractText = << >>
    /\ extractResult = NoValue
    /\ store = << >>
    /\ req = IdleRequest
    /\ response = NoValue
    /\ aiCalls = 0
    /\ started = 0
    /\ lastReprocess = NoValue
    /\ geminiModule \in {"fallback", "nofallback"}
    /\ geminiApiKey \in BOOLEAN
    /\ OthersIdle

Next ==
    \/ UploadRequest
    \/ UploadFirstSave
    \/ UploadAnalyze
    \/ UploadSecondSave
    \/ UploadRespond
    \/ ReprocessRequest
    \/ ReprocessSaveProcessing
    \/ ReprocessAnalyze
    \/ ReprocessSaveCompleted
    \/ ReprocessMarkFailed
    \/ UpdateRequest
    \/ UpdateSave
    \/ GetRiskNested
    \/ GetMetrics
    \/ GetRisk
    \/ GetBalanceSheet

Spec == Init /\ [][Next]_vars

(***************************************************************************)
(* POST /upload handled for several requests at once: each request has its *)
(* own locals, and the only thing they share is the collection.            *)
(***************************************************************************)
MaxUploaders == 2

Uploaders == 1..MaxUploaders

\* every document takes one id for all uploaders
DocumentIdShared(p) == 1

\* new BalanceSheet(...) gives the document its own fresh _id
DocumentId(p) == p

\* the files of the parallel uploads: the unreadable one and those that state
\* Total Assets; the bodies carry no financialYear
ParallelFiles ==
    { f \in Files : ~f.readable \/ \E i \in 1..Len(f.text) : f.text[i].label = "Total Assets" }

\* how the generateContent call of a parallel upload can end
ParallelAiOutcomes == PipelineAiOutcomes \ {AiText(PlainText)}

IdleUpload ==
    [ pc |-> "idle", file |-> NoValue, financialYear |-> 0, companyId |-> "",
      pdfData |-> NoValue, balanceSheet |-> NoValue, ai |-> NoValue, error |-> "",
      saved |-> FALSE, analysed |-> FALSE, resaved |-> FALSE, response |-> NoValue ]

\* the document an upload constructs from its inputs, with its derived metrics
UploadedDocument(id, companyId, financialYear, pdfData) ==
    LET year == IF financialYear # 0 THEN financialYear
                ELSE IF pdfData.financialYear # 0 THEN pdfData.financialYear
                ELSE CurrentYear
    IN  calculateMetrics([ NewBalanceSheet(id, year, pdfData.extractedData, "Completed")
                           EXCEPT !.company = companyId ])

InitUploads ==
    /\ mode = "uploads"
    /\ d = NoValue /\ ratios = NoValue /\ ratioCalls = 0
    /\ vdata = NoValue /\ validation = NoValue
    /\ sheets = << >> /\ trends = NoValue
    /\ aiInput = NoValue /\ aiResult = NoValue
    /\ record = NoValue /\ recordCalls = 0
    /\ riskSheets = << >> /\ riskResult = NoValue
    /\ growthSheets = << >> /\ growthResult = NoValue
    /\ extractText = << >> /\ extractResult = NoValue
    /\ store = << >> /\ req = IdleRequest /\ response = NoValue
    /\ aiCalls = 0 /\ started = 0 /\ lastReprocess = NoValue
    /\ geminiModule \in {"fallback", "nofallback"}
    /\ geminiApiKey \in BOOLEAN
    /\ uploads = [p \in Uploaders |-> IdleUpload]
    /\ collection = [id \in Uploaders |-> NoValue]
    /\ companies = << >> /\ companyUsers = << >> /\ hierarchy = NoValue
    /\ chat = NoValue /\ senders = << >>

UploadsFrame ==
    /\ UNCHANGED engineVars
    /\ UNCHANGED handlerVars
    /\ UNCHANGED companyVars
    /\ UNCHANGED chatVars

\* the handler of uploader p up to its first save
ParallelUploadRequest(p) ==
    /\ uploads[p].pc = "idle"
    /\ LET Refuse(status, message) ==
               uploads' = [uploads EXCEPT ![p].pc = "done",
                                          ![p].response = Respond(status, message)]
       IN  \E hasFile \in BOOLEAN :
             IF ~hasFile THEN Refuse(400, "Please upload a PDF file")
             ELSE \E companyId \in CompanyIds, companyLookup \in {"ok", "fail"} :
               IF companyLookup = "fail"
                   THEN Refuse(500, "Failed to upload balance sheet")
               ELSE IF companyId \notin Companies THEN Refuse(404, "Company not found")
               ELSE \E denied \in { UploadDenied(user, companyId) : user \in Users } :
                 IF denied THEN Refuse(403, "Access denied to this company")
                 ELSE \E file \in ParallelFiles, financialYear \in {0} :
                   LET pdfData == processBalanceSheetPDF(file)
                   IN  IF pdfData.threw
                           THEN uploads' =
                                    [uploads EXCEPT
                                        ![p].pc = "done",
                                        ![p].file = file,
                                        ![p].response =
                                            Respond(500, "Failed to upload balance sheet")]
                           ELSE uploads' =
                                    [uploads EXCEPT
                                        ![p].pc = "firstSave",
                                        ![p].file = file,
                                        ![p].financialYear = financialYear,
                                        ![p].companyId = companyId,
                                        ![p].pdfData = pdfData.value,
                                        ![p].balanceSheet =
                                            UploadedDocument(DocumentId(p), companyId,
                                                             financialYear, pdfData.value)]
    /\ UNCHANGED collection
    /\ UploadsFrame

\* await balanceSheet.save(), then the test of pdfData.validation.isValid
ParallelUploadFirstSave(p) ==
    /\ uploads[p].pc = "firstSave"
    /\ \E save \in {"ok", "fail"} :
         IF save = "ok"
             THEN /\ collection' =
                         [collection EXCEPT ![uploads[p].balanceSheet.id] =
                                                 uploads[p].balanceSheet]
                  /\ uploads' = [uploads EXCEPT
                                    ![p].saved = TRUE,
                                    ![p].pc = IF uploads[p].pdfData.validation.isValid
                                                  THEN "analyze" ELSE "respond"]
             ELSE /\ collection' = collection
                  /\ uploads' = [uploads EXCEPT
                                    ![p].pc = "done",
                                    ![p].response =
                                        Respond(500, "Failed to upload balance sheet")]
    /\ UploadsFrame

\* analysis = await analyzeFinancialData(pdfData.extractedData)
ParallelUploadAnalyze(p) ==
    /\ uploads[p].pc = "analyze"
    /\ \E ai \in ParallelAiOutcomes :
         LET result == Analyze(uploads[p].pdfData.extractedData, ai)
         IN  IF result.threw
                 THEN uploads' = [uploads EXCEPT ![p].pc = "respond", ![p].ai = ai,
                                                 ![p].error = result.message]
                 ELSE uploads' = [uploads EXCEPT
                                     ![p].pc = "secondSave",
                                     ![p].ai = ai,
                                     ![p].analysed = TRUE,
                                     ![p].balanceSheet.analysis = AnalysisOf(result.value)]
    /\ UNCHANGED collection
    /\ UploadsFrame

\* the second await balanceSheet.save(), inside the inner try
ParallelUploadSecondSave(p) ==
    /\ uploads[p].pc = "secondSave"
    /\ \E save \in {"ok", "fail"} :
         IF save = "ok"
             THEN /\ collection' =
                         [collection EXCEPT ![uploads[p].balanceSheet.id] =
                                                 uploads[p].balanceSheet]
                  /\ uploads' = [uploads EXCEPT ![p].pc = "respond", ![p].resaved = TRUE]
             ELSE /\ collection' = collection
                  /\ uploads' = [uploads EXCEPT ![p].pc = "respond",
                                                ![p].error = "save failed"]
    /\ UploadsFrame

\* res.status(201).json(...) with the fields of the document in memory
ParallelUploadRespond(p) ==
    /\ uploads[p].pc = "respond"
    /\ uploads' =
           [uploads EXCEPT
               ![p].pc = "done",
               ![p].response =
                   [ status |-> 201,
                     message |-> "Balance sheet uploaded successfully",
                     id |-> uploads[p].balanceSheet.id,
                     financialYear |-> uploads[p].balanceSheet.financialYear,
                     processingStatus |-> uploads[p].balanceSheet.processingStatus,
                     extractedData |-> uploads[p].balanceSheet.extractedData,
                     analysis |-> uploads[p].balanceSheet.analysis,
                     validation |-> uploads[p].pdfData.validation ]]
    /\ UNCHANGED collection
    /\ UploadsFrame

NextUploads ==
    \/ \E p \in Uploaders : ParallelUploadRequest(p)
    \/ \E p \in Uploaders : ParallelUploadFirstSave(p)
    \/ \E p \in Uploaders : ParallelUploadAnalyze(p)
    \/ \E p \in Uploaders : ParallelUploadSecondSave(p)
    \/ \E p \in Uploaders : ParallelUploadRespond(p)

SpecUploads == InitUploads /\ [][NextUploads]_vars

(***************************************************************************)
(* The Company collection: create, update, delete, the company created by  *)
(* registerUser, and the walks of the hierarchy.  A request is handled     *)
(* alone; any of its awaited operations may reject, which ends it with 500 *)
(* and leaves what the earlier ones wrote.                                 *)
(***************************************************************************)
MaxCompanies == 3

CompanyNames == {"Alpha", "Beta"}

\* a well-formed id that no company has
GhostId == MaxCompanies + 1

\* parentCompany absent from the body / null in the body
Undefined == 0 - 1

Null == 0

NewCompany(name, parentCompany) ==
    [ name |-> name, parentCompany |-> parentCompany, subsidiaries |-> << >>,
      deleted |-> FALSE ]

CompanyExists(coll, id) == id \in 1..Len(coll) /\ ~coll[id].deleted

\* Company.findOne({ name }): the first stored company of that name, or Null
FindByName(coll, name) ==
    LET ids == { id \in 1..Len(coll) : CompanyExists(coll, id) /\ coll[id].name = name }
    IN  IF ids = {} THEN Null ELSE CHOOSE id \in ids : \A other \in ids : id <= other

\* findByIdAndUpdate(parent, { $push: { subsidiaries: id } }): no document, no effect
PushSubsidiary(coll, parent, id) ==
    IF CompanyExists(coll, parent)
        THEN [coll EXCEPT ![parent].subsidiaries = Append(@, id)]
    ELSE coll

\* findByIdAndUpdate(parent, { $pull: { subsidiaries: id } }): every occurrence
PullSubsidiary(coll, parent, id) ==
    IF CompanyExists(coll, parent)
        THEN [coll EXCEPT ![parent].subsidiaries = SelectSeq(@, LAMBDA s : s # id)]
    ELSE coll

\* updateMany({ parentCompany: id }, { $unset: { parentCompany: 1 } })
UnsetParent(coll, id) ==
    [ c \in 1..Len(coll) |->
        IF ~coll[c].deleted /\ coll[c].parentCompany = id
            THEN [coll[c] EXCEPT !.parentCompany = Null]
        ELSE coll[c] ]

\* the ids a request can name: those handed out so far and the ghost
KnownIds == (1..Len(companies)) \cup {GhostId}

CompanyResponse(op, status) == [op |-> op, status |-> status]

InitCompanies ==
    /\ mode = "companies"
    /\ d = NoValue /\ ratios = NoValue /\ ratioCalls = 0
    /\ vdata = NoValue /\ validation = NoValue
    /\ sheets = << >> /\ trends = NoValue
    /\ aiInput = NoValue /\ aiResult = NoValue
    /\ record = NoValue /\ recordCalls = 0
    /\ riskSheets = << >> /\ riskResult = NoValue
    /\ growthSheets = << >> /\ growthResult = NoValue
    /\ extractText = << >> /\ extractResult = NoValue
    /\ store = << >> /\ req = IdleRequest /\ response = NoValue
    /\ aiCalls = 0 /\ started = 0 /\ lastReprocess = NoValue
    /\ geminiModule = "fallback" /\ geminiApiKey = FALSE
    /\ uploads = << >> /\ collection = << >>
    /\ companies = << >> /\ companyUsers = << >> /\ hierarchy = NoValue
    /\ chat = NoValue /\ senders = << >>

\* a company request is received: the requests are counted
CompanyRequest ==
    /\ mode = "companies"
    /\ started < MaxRequests
    /\ started' = started + 1
    /\ UNCHANGED <<store, req, response, aiCalls, lastReprocess, geminiModule, geminiApiKey>>
    /\ UNCHANGED engineVars
    /\ UNCHANGED uploadVars
    /\ UNCHANGED chatVars

\* POST /api/companies: findOne by name, save, $push into the parent
CreateCompany ==
    /\ CompanyRequest
    /\ Len(companies) < MaxCompanies
    /\ \E name \in CompanyNames, parentCompany \in {Undefined} \cup KnownIds, failAt \in 0..3 :
         LET id == Len(companies) + 1
             stored == Append(companies,
                              NewCompany(name, IF parentCompany = Undefined THEN Null
                                               ELSE parentCompany))
             pushed == IF parentCompany # Undefined
                           THEN PushSubsidiary(stored, parentCompany, id)
                       ELSE stored
         IN  IF failAt = 1 THEN /\ companies' = companies /\ companyUsers' = companyUsers
                                /\ hierarchy' = CompanyResponse("create", 500)
             ELSE IF FindByName(companies, name) # Null
                 THEN /\ companies' = companies /\ companyUsers' = companyUsers
                      /\ hierarchy' = CompanyResponse("create", 400)
             ELSE IF failAt = 2 THEN /\ companies' = companies /\ companyUsers' = companyUsers
                                     /\ hierarchy' = CompanyResponse("create", 500)
             ELSE IF failAt = 3 /\ parentCompany # Undefined
                 THEN /\ companies' = stored /\ companyUsers' = Append(companyUsers, 0)
                      /\ hierarchy' = CompanyResponse("create", 500)
             ELSE /\ companies' = pushed /\ companyUsers' = Append(companyUsers, 0)
                  /\ hierarchy' = CompanyResponse("create", 201)

\* PUT /api/companies/:id: the fields, then for a parentCompany in the body the
\* $pull from the old parent, the $push into the new one, and the save
UpdateCompany ==
    /\ CompanyRequest
    /\ \E id \in KnownIds, name \in {""} \cup CompanyNames,
          parentCompany \in {Undefined, Null} \cup KnownIds, failAt \in 0..4 :
         LET old == companies[id].parentCompany
             pulled == IF parentCompany # Undefined /\ old # Null
                           THEN PullSubsidiary(companies, old, id) ELSE companies
             pushed == IF parentCompany \notin {Undefined, Null}
                           THEN PushSubsidiary(pulled, parentCompany, id) ELSE pulled
             saved == [pushed EXCEPT
                          ![id].name = IF name # "" THEN name ELSE @,
                          ![id].parentCompany =
                              IF parentCompany # Undefined THEN parentCompany ELSE @]
             Fail(coll) == /\ companies' = coll
                           /\ hierarchy' = CompanyResponse("update", 500)
         IN  /\ companyUsers' = companyUsers
             /\ IF failAt = 1 THEN Fail(companies)
                ELSE IF ~CompanyExists(companies, id)
                    THEN /\ companies' = companies
                         /\ hierarchy' = CompanyResponse("update", 404)
                ELSE IF failAt = 2 /\ parentCompany # Undefined /\ old # Null
                    THEN Fail(companies)
                ELSE IF failAt = 3 /\ parentCompany \notin {Undefined, Null}
                    THEN Fail(pulled)
                ELSE IF failAt = 4 THEN Fail(pushed)
                ELSE /\ companies' = saved
                     /\ hierarchy' = CompanyResponse("update", 200)

\* DELETE /api/companies/:id: refused while users are assigned; the $pull from
\* the parent, the $unset of the children's parent, the delete
DeleteCompany ==
    /\ CompanyRequest
    /\ \E id \in KnownIds, failAt \in 0..5 :
         LET old == companies[id].parentCompany
             pulled == IF old # Null THEN PullSubsidiary(companies, old, id) ELSE companies
             unset == UnsetParent(pulled, id)
             removed == [unset EXCEPT ![id].deleted = TRUE]
             Fail(coll) == /\ companies' = coll
                           /\ hierarchy' = CompanyResponse("delete", 500)
         IN  /\ companyUsers' = companyUsers
             /\ IF failAt = 1 THEN Fail(companies)
                ELSE IF ~CompanyExists(companies, id)
                    THEN /\ companies' = companies
                         /\ hierarchy' = CompanyResponse("delete", 404)
                ELSE IF failAt = 2 THEN Fail(companies)
                ELSE IF companyUsers[id] > 0
                    THEN /\ companies' = companies
                         /\ hierarchy' = CompanyResponse("delete", 400)
                ELSE IF failAt = 3 /\ old # Null THEN Fail(companies)
                ELSE IF failAt = 4 THEN Fail(pulled)
                ELSE IF failAt = 5 THEN Fail(unset)
                ELSE /\ companies' = removed
                     /\ hierarchy' = CompanyResponse("delete", 200)

\* registerUser: the company is found by name or created without a parent, and
\* the user is assigned to it (the user of that email is taken not to exist)
RegisterUser ==
    /\ CompanyRequest
    /\ \E name \in CompanyNames, failAt \in 0..3 :
         LET found == FindByName(companies, name)
             created == Append(companies, NewCompany(name, Null))
             id == IF found # Null THEN found ELSE Len(companies) + 1
             users == IF found # Null THEN companyUsers ELSE Append(companyUsers, 0)
         IN  /\ found = Null => Len(companies) < MaxCompanies
             /\ IF failAt = 1 \/ (failAt = 2 /\ found = Null)
                    THEN /\ companies' = companies /\ companyUsers' = companyUsers
                         /\ hierarchy' = CompanyResponse("register", 500)
                ELSE IF failAt = 3
                    THEN /\ companies' = (IF found # Null THEN companies ELSE created)
                         /\ companyUsers' = users
                         /\ hierarchy' = CompanyResponse("register", 500)
                ELSE /\ companies' = (IF found # Null THEN companies ELSE created)
                     /\ companyUsers' = [users EXCEPT ![id] = @ + 1]
                     /\ hierarchy' = CompanyResponse("register", 201)

\* populate('subsidiaries'): the entries that name a stored company
Populated(coll, id) == SelectSeq(coll[id].subsidiaries, LAMBDA s : CompanyExists(coll, s))

\* getSubsidiaries(companyId) unfolded to at most `fuel` nested calls: the
\* subsidiaries collected, and whether the recursion came to an end
RECURSIVE CollectSubsidiaries(_, _, _)
RECURSIVE CollectEach(_, _, _)
CollectEach(coll, subs, fuel) ==
    IF subs = << >> THEN [ended |-> TRUE, list |-> << >>]
    ELSE LET first == CollectSubsidiaries(coll, Head(subs), fuel)
             rest == CollectEach(coll, Tail(subs), fuel)
         IN  [ ended |-> first.ended /\ rest.ended,
               list |-> << Head(subs) >> \o first.list \o rest.list ]

CollectSubsidiaries(coll, id, fuel) ==
    IF fuel = 0 THEN [ended |-> FALSE, list |-> << >>]
    ELSE IF ~CompanyExists(coll, id) THEN [ended |-> TRUE, list |-> << >>]
    ELSE CollectEach(coll, Populated(coll, id), fuel - 1)

\* a chain of nested calls longer than the collection revisits a company, and
\* the recursion then never ends
Fuel(coll) == Len(coll) + 1

getAllSubsidiaries(coll, id) == CollectSubsidiaries(coll, id, Fuel(coll))

\* getHierarchyTree unfolded in the same way: the entries of this.subsidiaries
\* that findById finds, each with its own tree
RECURSIVE HierarchyTree(_, _, _)
HierarchyTree(coll, id, fuel) ==
    IF fuel = 0 THEN [ended |-> FALSE, tree |-> [id |-> id, subsidiaries |-> << >>]]
    ELSE LET subs == Populated(coll, id)
             trees == [i \in 1..Len(subs) |-> HierarchyTree(coll, subs[i], fuel - 1)]
         IN  [ ended |-> \A i \in 1..Len(subs) : trees[i].ended,
               tree |-> [ id |-> id,
                          subsidiaries |-> [i \in 1..Len(subs) |-> trees[i].tree] ] ]

getHierarchyTree(coll, id) == HierarchyTree(coll, id, Fuel(coll))

\* GET /:id/subsidiaries and GET /:id/hierarchy on a stored company
WalkHierarchy ==
    /\ mode = "companies"
    /\ \E id \in 1..Len(companies), walk \in {"getAllSubsidiaries", "getHierarchyTree"} :
         /\ CompanyExists(companies, id)
         /\ hierarchy' =
                [ op |-> walk, company |-> id,
                  terminates |-> IF walk = "getAllSubsidiaries"
                                     THEN getAllSubsidiaries(companies, id).ended
                                 ELSE getHierarchyTree(companies, id).ended,
                  value |-> IF walk = "getAllSubsidiaries"
                                THEN [ id |-> id,
                                       subsidiaries |->
                                           getAllSubsidiaries(companies, id).list ]
                            ELSE getHierarchyTree(companies, id).tree ]
    /\ UNCHANGED <<companies, companyUsers>>
    /\ UNCHANGED handlerVars
    /\ UNCHANGED engineVars
    /\ UNCHANGED uploadVars
    /\ UNCHANGED chatVars

NextCompanies ==
    \/ CreateCompany
    \/ UpdateCompany
    \/ DeleteCompany
    \/ RegisterUser
    \/ WalkHierarchy

SpecCompanies == InitCompanies /\ [][NextCompanies]_vars

(***************************************************************************)
(* POST /api/chat/:id/message for several requests on one chat.  Each      *)
(* request works on the document it loaded; addMessage pushes onto that    *)
(* document and saves, which appends the pushed element to the stored      *)
(* array ($push).                                                          *)
(***************************************************************************)
MaxSenders == 2

Senders == 1..MaxSenders

Message(role, content) == [role |-> role, content |-> content]

IdleSender ==
    [ pc |-> "idle", doc |-> NoValue, aiResponse |-> NoValue, response |-> NoValue ]

\* res.status(500).json(...) of the catch
SendFailed(s) ==
    [senders EXCEPT ![s].pc = "done", ![s].response = [status |-> 500]]

InitChat ==
    /\ mode = "chat"
    /\ d = NoValue /\ ratios = NoValue /\ ratioCalls = 0
    /\ vdata = NoValue /\ validation = NoValue
    /\ sheets = << >> /\ trends = NoValue
    /\ aiInput = NoValue /\ aiResult = NoValue
    /\ record = NoValue /\ recordCalls = 0
    /\ riskSheets = << >> /\ riskResult = NoValue
    /\ growthSheets = << >> /\ growthResult = NoValue
    /\ extractText = << >> /\ extractResult = NoValue
    /\ store = << >> /\ req = IdleRequest /\ response = NoValue
    /\ aiCalls = 0 /\ started = 0 /\ lastReprocess = NoValue
    /\ geminiModule = "fallback" /\ geminiApiKey = FALSE
    /\ uploads = << >> /\ collection = << >>
    /\ companies = << >> /\ companyUsers = << >> /\ hierarchy = NoValue
    \* no message yet, the default title (0), and the handler the server mounts
    /\ chat \in { [messages |-> << >>, title |-> 0, handler |-> h] :
                    h \in {"route", "controller"} }
    /\ senders = [s \in Senders |-> IdleSender]

ChatFrame ==
    /\ UNCHANGED engineVars
    /\ UNCHANGED handlerVars
    /\ UNCHANGED uploadVars
    /\ UNCHANGED companyVars

\* Chat.findById and the checks that the chat exists and is the caller's
SendLoad(s) ==
    /\ senders[s].pc = "idle"
    /\ \E lookup \in {"ok", "fail", "none"}, owner \in BOOLEAN :
         senders' =
             IF lookup = "fail" THEN SendFailed(s)
             ELSE IF lookup = "none"
                 THEN [senders EXCEPT ![s].pc = "done", ![s].response = [status |-> 404]]
             ELSE IF ~owner
                 THEN [senders EXCEPT ![s].pc = "done", ![s].response = [status |-> 403]]
             ELSE [senders EXCEPT ![s].pc = "addUser",
                                  ![s].doc = [messages |-> chat.messages,
                                              title |-> chat.title]]
    /\ UNCHANGED chat
    /\ ChatFrame

\* addMessage: the push onto the loaded document and the save that appends the
\* pushed element to the stored messages
addMessage(s, message, next) ==
    \E save \in {"ok", "fail"} :
        IF save = "ok"
            THEN /\ chat' = [chat EXCEPT !.messages = Append(@, message)]
                 /\ senders' = [senders EXCEPT ![s].pc = next,
                                               ![s].doc.messages = Append(@, message)]
            ELSE /\ chat' = chat
                 /\ senders' = SendFailed(s)

\* await chat.addMessage('user', message)
SendAddUser(s) ==
    /\ senders[s].pc = "addUser"
    /\ addMessage(s, Message("user", s), "chatWithAI")
    /\ ChatFrame

\* aiResponse = await chatWithAI(message, context): the reply to this message
SendChatWithAI(s) ==
    /\ senders[s].pc = "chatWithAI"
    /\ \E ai \in {"ok", "fail"} :
         senders' = IF ai = "ok"
                        THEN [senders EXCEPT ![s].pc = "addAssistant",
                                             ![s].aiResponse = Message("assistant", s)]
                    ELSE SendFailed(s)
    /\ UNCHANGED chat
    /\ ChatFrame

\* await chat.addMessage('assistant', aiResponse, ...)
SendAddAssistant(s) ==
    /\ senders[s].pc = "addAssistant"
    /\ addMessage(s, senders[s].aiResponse, "title")
    /\ ChatFrame

\* the title of a first exchange (chat.messages.length === 2) and its save;
\* then the response from the loaded document, or the second lookup
SendTitle(s) ==
    /\ senders[s].pc = "title"
    /\ LET doc == senders[s].doc
           n == Len(doc.messages)
           first == n = 2
           answered ==
               IF chat.handler = "controller" THEN [senders EXCEPT ![s].pc = "reread"]
               ELSE [senders EXCEPT
                        ![s].pc = "done",
                        ![s].response = [ status |-> 200,
                                          userMessage |-> doc.messages[n - 1],
                                          aiResponse |-> doc.messages[n],
                                          chatTitle |-> IF first THEN doc.messages[1].content
                                                        ELSE doc.title ]]
       IN  \E save \in {"ok", "fail"} :
             IF first /\ save = "fail"
                 THEN /\ senders' = SendFailed(s)
                      /\ chat' = chat
                 ELSE /\ senders' = answered
                      /\ chat' = IF first THEN [chat EXCEPT !.title = doc.messages[1].content]
                                 ELSE chat
    /\ ChatFrame

\* updatedChat = await Chat.findById(chatId) and the response from its last
\* two messages
SendReread(s) ==
    /\ senders[s].pc = "reread"
    /\ \E lookup \in {"ok", "fail"} :
         LET n == Len(chat.messages)
         IN  senders' =
                 IF lookup = "fail" THEN SendFailed(s)
                 ELSE [senders EXCEPT
                          ![s].pc = "done",
                          ![s].response = [ status |-> 200,
                                            userMessage |-> chat.messages[n - 1],
                                            aiResponse |-> chat.messages[n],
                                            chatTitle |-> chat.title ]]
    /\ UNCHANGED chat
    /\ ChatFrame

NextChat ==
    \/ \E s \in Senders : SendLoad(s)
    \/ \E s \in Senders : SendAddUser(s)
    \/ \E s \in Senders : SendChatWithAI(s)
    \/ \E s \in Senders : SendAddAssistant(s)
    \/ \E s \in Senders : SendTitle(s)
    \/ \E s \in Senders : SendReread(s)

SpecChat == InitChat /\ [][NextChat]_vars




(***************************************************************************)
FieldOf(data, f) ==
    IF f \in BalanceSheetFields THEN data.balanceSheet[f] ELSE data.incomeStatement[f]

\* each ratio's nominal denominator field and numerator value, by the formula table
NominalDenominator(r) ==
    CASE r \in {"currentRatio", "quickRatio", "cashRatio"} -> "currentLiabilities"
      [] r \in {"debtToEquity", "roe"} -> "totalEquity"
      [] r \in {"debtToAssets", "equityRatio", "assetTurnover", "roa"} -> "totalAssets"
      [] r = "inventoryTurnover" -> "inventory"
      [] r = "receivablesTurnover" -> "receivables"
      [] r = "fixedAssetTurnover" -> "propertyPlantEquipment"
      [] r \in {"grossMargin", "netMargin", "daysSalesOutstanding"} -> "revenue"
      [] r \in {"daysInventoryOutstanding", "daysPayablesOutstanding"} -> "costOfGoodsSold"

NominalNumerator(r, data) ==
    CASE r = "currentRatio" -> FieldOf(data, "currentAssets")
      [] r = "quickRatio" -> FieldOf(data, "currentAssets") - FieldOf(data, "inventory")
      [] r = "cashRatio" -> FieldOf(data, "cashAndEquivalents")
      [] r \in {"debtToEquity", "debtToAssets"} -> FieldOf(data, "totalLiabilities")
      [] r = "equityRatio" -> FieldOf(data, "totalEquity")
      [] r \in {"assetTurnover", "receivablesTurnover", "fixedAssetTurnover"} ->
             FieldOf(data, "revenue")
      [] r = "inventoryTurnover" -> FieldOf(data, "costOfGoodsSold")
      [] r \in {"roa", "roe", "netMargin"} -> FieldOf(data, "netProfit")
      [] r = "grossMargin" -> FieldOf(data, "grossProfit")
      [] r = "daysSalesOutstanding" -> FieldOf(data, "receivables") * DaysPerYear
      [] r = "daysInventoryOutstanding" -> FieldOf(data, "inventory") * DaysPerYear
      [] r = "daysPayablesOutstanding" -> FieldOf(data, "tradePayables") * DaysPerYear

GuardedRatios ==
    { "currentRatio", "quickRatio", "cashRatio", "debtToEquity", "debtToAssets",
      "equityRatio", "assetTurnover", "inventoryTurnover", "receivablesTurnover",
      "fixedAssetTurnover", "roa", "roe", "grossMargin", "netMargin",
      "daysSalesOutstanding", "daysInventoryOutstanding", "daysPayablesOutstanding" }

\* C1: whenever a ratio's nominal denominator field is 0, the computed ratio equals
\* its numerator value (denominator replaced by 1) and is neither Infinity nor NaN.
C1_DenominatorGuard ==
    (mode = "metrics" /\ ratios # NoValue) =>
        \A r \in GuardedRatios :
            FieldOf(d, NominalDenominator(r)) = 0 =>
                /\ IsFinite(ratios.value[r])
                /\ ratios.value[r] = Num(NominalNumerator(r, d))

\* the previous period's figures of the i-th reported pair
PreviousFigure(by, i, f) ==
    LET p == IF by = "calculateTrendAnalysis" THEN sheets[i]
             ELSE IF by = "growthRoute"
                 THEN SortByYear(sheets)[Len(sheets) - i]
             ELSE SortByYear(sheets)[i]
    IN  IF f = "revenue" THEN p.data.incomeStatement.revenue ELSE p.data.balanceSheet[f]

\* the growth fields an engine reports, each with the figure it is the growth of
GrowthFields(by) ==
    IF by = "growthRoute"
        THEN { <<"assetGrowth", "totalAssets">>, <<"liabilityGrowth", "totalLiabilities">>,
               <<"equityGrowth", "totalEquity">> }
        ELSE { <<"assetGrowth", "totalAssets">>, <<"revenueGrowth", "revenue">>,
               <<"equityGrowth", "totalEquity">> }

\* C2: for every adjacent pair of periods and every growth field, when the previous
\* period's value is 0 the reported growth rate is a defined (finite) value, never
\* Infinity or NaN, whatever the current value is.
C2_GrowthZeroPreviousGuard ==
    (mode = "trend" /\ trends # NoValue) =>
        \A i \in 1..Len(trends.value) : \A gf \in GrowthFields(trends.by) :
            PreviousFigure(trends.by, i, gf[2]) = 0 =>
                IsFinite(trends.value[i][gf[1]])

AnalysisKeys ==
    { "analysis", "keyInsights", "riskFactors", "recommendations", "advancedMetrics",
      "industryBenchmark" }

\* C4: for every outcome of the AI call and every non-null input, analyzeFinancialData
\* returns without raising, and its result has exactly the six keys of the contract.
C4_AnalysisNeverFails ==
    (mode = "analyze" /\ aiResult # NoValue) =>
        /\ ~aiResult.result.threw
        /\ DOMAIN aiResult.result.value = AnalysisKeys

\* C4, for the module that has the fallback generator only
C4_FallbackModuleNeverFails ==
    (mode = "analyze" /\ aiResult # NoValue /\ aiResult.by = "analyzeFinancialData") =>
        /\ ~aiResult.result.threw
        /\ DOMAIN aiResult.result.value = AnalysisKeys

AllCriticalZero(data) ==
    data.totalAssets = 0 /\ data.totalLiabilities = 0 /\ data.totalEquity = 0

\* C5: validateFinancialData returns isValid = false with a non-empty errors list if
\* and only if totalAssets, totalLiabilities and totalEquity are all 0; otherwise
\* isValid = true and errors is empty, however many warnings there are.
C5_FatalIffNoCriticalData ==
    (mode = "validate" /\ validation # NoValue) =>
        IF AllCriticalZero(vdata)
            THEN validation.isValid = FALSE /\ validation.errors # << >>
            ELSE validation.isValid = TRUE /\ validation.errors = << >>

C5_Witness ==
    /\ mode = "validate" /\ validation # NoValue
    /\ AllCriticalZero(vdata)
    /\ validation.isValid = FALSE
    /\ Len(validation.warnings) > 0

HasBalanceWarning(v) == \E i \in 1..Len(v.warnings) : v.warnings[i].kind = "balance"

\* C6: the balance warning is emitted if and only if
\* |totalLiabilities + totalEquity - totalAssets| > 0.05 * totalAssets
\* (compared as 100 * difference > 5 * totalAssets); a difference of exactly 5% of
\* totalAssets gives no warning.
C6_BalanceWarningIffOverTolerance ==
    (mode = "validate" /\ validation # NoValue) =>
        (HasBalanceWarning(validation) <=>
            100 * Abs(vdata.totalLiabilities + vdata.totalEquity - vdata.totalAssets)
                > 5 * vdata.totalAssets)

C6_Witness ==
    /\ mode = "validate" /\ validation # NoValue
    /\ vdata.totalAssets = 1000 /\ vdata.totalLiabilities = 600 /\ vdata.totalEquity = 450
    /\ ~HasBalanceWarning(validation)

\* C6, the three cases the specification gives
C6_Examples ==
    (mode = "validate" /\ validation # NoValue
        /\ vdata.totalAssets = 1000 /\ vdata.totalLiabilities = 600) =>
        /\ vdata.totalEquity = 400 => ~HasBalanceWarning(validation)
        /\ vdata.totalEquity = 300 => HasBalanceWarning(validation)
        /\ vdata.totalEquity = 450 => ~HasBalanceWarning(validation)

UploadDone == req.op = "upload" /\ req.pc = "done"

\* the upload being handled has put a document into the collection
RecordStored == Len(store) > req.stored

StoredRecord == store[req.stored + 1]

ProcessedUpload == req.op = "upload" /\ req.pdfData # NoValue

CriticalKeys == {"totalAssets", "totalLiabilities", "totalEquity"}

\* C3 as stated: every upload ends either with a stored record that holds a
\* populated analysis, or with an error response and no record stored.
C3_TwoOutcomesAsStated ==
    UploadDone =>
        \/ /\ response.status = 201
           /\ RecordStored
           /\ StoredRecord.analysis.aiGenerated
        \/ /\ response.status >= 400
           /\ ~RecordStored

\* C3 (amended): every upload ends either with the 201 response and a stored
\* record that holds the extracted data and the derived metrics, whose stored
\* analysis is the new analysis exactly when validation passed, the analysis
\* call returned and the second save went through (and is the empty default
\* analysis otherwise), or with an error response and no record stored.
C3_UploadOutcomes ==
    UploadDone =>
        \/ /\ response.status = 201
           /\ RecordStored
           /\ Len(store) = req.stored + 1
           /\ \A k \in PatternKeySet \cap SchemaKeys :
                  StoredRecord.extractedData[k] = req.pdfData.extractedData[k]
           /\ StoredRecord.extractedData.workingCapital =
                  req.pdfData.extractedData.currentAssets
                      - req.pdfData.extractedData.currentLiabilities
           /\ StoredRecord.extractedData = req.balanceSheet.extractedData
           /\ StoredRecord.analysis =
                  IF req.pdfData.validation.isValid /\ req.analysed /\ req.resaved
                      THEN AnalysisOf(req.analysis)
                      ELSE DefaultAnalysis
        \/ /\ response.status \in {400, 403, 404, 500}
           /\ store = SubSeq(store, 1, req.stored)

\* an upload of valid data that ended with 201 and a stored record without analysis
C3_Witness ==
    /\ UploadDone
    /\ response.status = 201
    /\ RecordStored
    /\ req.pdfData.validation.isValid
    /\ StoredRecord.analysis = DefaultAnalysis
    /\ response.analysis # StoredRecord.analysis

\* C7: during an upload whose validation failed, analyzeFinancialData is never
\* invoked, and once the first save went through the record is stored with the
\* extracted data (the totals the validator tests all zero); when validation
\* passed the analysis is invoked at most once, only after the first save, and
\* exactly once by the time the response is sent.
C7_ValidationGatesAnalysis ==
    /\ (ProcessedUpload /\ ~req.pdfData.validation.isValid) => aiCalls = 0
    /\ req.op = "upload" => aiCalls <= 1
    /\ (req.op = "upload" /\ aiCalls > 0) => (req.saved /\ RecordStored)
    /\ (UploadDone /\ req.saved /\ ~req.pdfData.validation.isValid) =>
           /\ response.status = 201
           /\ RecordStored
           /\ \A k \in CriticalKeys : StoredRecord.extractedData[k] = 0
           /\ \A k \in PatternKeySet \cap SchemaKeys :
                  StoredRecord.extractedData[k] = req.pdfData.extractedData[k]
           /\ StoredRecord.analysis = DefaultAnalysis
    /\ (UploadDone /\ req.saved /\ req.pdfData.validation.isValid) => aiCalls = 1

\* an upload of a text without any of the three totals, answered with the
\* record stored and no analysis call
C7_Witness ==
    /\ UploadDone
    /\ req.saved
    /\ req.file.text # << >>
    /\ ~req.pdfData.validation.isValid
    /\ RecordStored
    /\ aiCalls = 0

\* C8: an upload whose PDF is unreadable or has an empty text ends with an
\* error response and no record stored.
C8_UnreadableOrEmptyIsHardFailure ==
    (UploadDone /\ req.file # NoValue /\ (~req.file.readable \/ req.file.text = << >>)) =>
        /\ response.status >= 400
        /\ ~RecordStored

\* the step in which a reprocess stores its new analysis
ReprocessSucceeds ==
    /\ req.op = "reprocess"
    /\ req.pc = "saveCompleted"
    /\ req'.pc = "done"
    /\ req'.resaved

\* C9: each successful reprocess stores an analysis made of the new result
\* only (nothing of the previous analysis is kept) and leaves the structured
\* data as it was; a successful reprocess that follows a successful reprocess
\* of the same document with the same output leaves the stored analysis and
\* structured data as the earlier one left them.
C9_ReprocessOverwrites ==
    [][ ReprocessSucceeds =>
          LET id == req.balanceSheet.id
          IN  /\ store'[id].analysis.aiGenerated
              /\ store'[id].analysis.keyInsights = req.analysis.keyInsights
              /\ store'[id].analysis.riskFactors = req.analysis.riskFactors
              /\ store'[id].analysis.growthMetrics =
                     [revenueGrowth |-> 0, assetGrowth |-> 0, profitGrowth |-> 0]
              /\ store'[id].extractedData = req.before.extractedData
              /\ store'[id].processingStatus = "Completed"
              /\ \A other \in 1..Len(store) : other # id => store'[other] = store[other]
              /\ ( /\ lastReprocess # NoValue
                   /\ lastReprocess.id = id
                   /\ lastReprocess.output = req.analysis )
                 => /\ store'[id].analysis = lastReprocess.analysis
                    /\ store'[id].extractedData = lastReprocess.extractedData ]_vars

\* a successful reprocess has replaced a different, AI-generated analysis
C9_Witness ==
    /\ req.op = "reprocess"
    /\ req.pc = "done"
    /\ req.resaved
    /\ req.before.analysis.aiGenerated
    /\ req.before.analysis.keyInsights # << >>
    /\ req.before.analysis # store[req.balanceSheet.id].analysis

(***************************************************************************)
(* Properties of the record's derived metrics.                             *)
(***************************************************************************)
\* C11: calculateMetrics changes no field of the record other than
\* workingCapital, debtToEquityRatio, currentRatio and quickRatio, and calling
\* it again on a record whose metrics it has already computed leaves all four
\* (and so the whole record) as they are.
C11_CalculateMetricsIdempotent ==
    [][ (recordCalls' = recordCalls + 1) =>
            /\ \A f \in DOMAIN record : f # "extractedData" => record'[f] = record[f]
            /\ DOMAIN record'.extractedData = DOMAIN record.extractedData
            /\ \A k \in DOMAIN record.extractedData \ DerivedKeys :
                   record'.extractedData[k] = record.extractedData[k]
            /\ recordCalls >= 1 =>
                   \A k \in DerivedKeys :
                       record'.extractedData[k] = record.extractedData[k] ]_vars

\* a second call on a record with all its ratios computed and a non-zero working capital
C11_Witness ==
    /\ mode = "record"
    /\ recordCalls = 2
    /\ record.extractedData.workingCapital = 250
    /\ record.extractedData.currentRatio = Num(2)
    /\ record.extractedData.quickRatio = Norm(8, 5)
    /\ record.extractedData.debtToEquityRatio = Norm(3, 2)

\* the derived fields a record with these base fields has when they are
\* computed from nothing but the base fields
MetricsOfData(data) ==
    calculateMetrics(
        NewBalanceSheet(0, 0, [k \in DOMAIN data \ DerivedKeys |-> data[k]], "Completed")
    ).extractedData

\* C12: the derived fields of every stored record are the ones computed from
\* the record's present currentAssets, currentLiabilities, inventory,
\* totalLiabilities and totalEquity; none is left from an earlier version.
C12_DerivedFieldsFollowData ==
    \A i \in 1..Len(store) :
        \A k \in DerivedKeys :
            store[i].extractedData[k] = MetricsOfData(store[i].extractedData)[k]

(***************************************************************************)
(* Properties of the cash conversion cycle.                                *)
(***************************************************************************)
\* C13: in every MetricsSet, cashConversionCycle equals daysSalesOutstanding
\* + daysInventoryOutstanding - daysPayablesOutstanding of that same set,
\* for every input, revenue = 0 and costOfGoodsSold = 0 included.
C13_CashConversionCycleIsSum ==
    (mode = "metrics" /\ ratios # NoValue) =>
        /\ ~IsNaN(ratios.value.cashConversionCycle)
        /\ ratios.value.cashConversionCycle =
               JsSub(JsAdd(ratios.value.daysSalesOutstanding,
                           ratios.value.daysInventoryOutstanding),
                     ratios.value.daysPayablesOutstanding)

(***************************************************************************)
(* The Risk Classifier.                                                    *)
(***************************************************************************)
NoLevel == "none"

RiskLevels == {"Low", "Medium", "High"}

\* the risk profiles a 200 response reports, one shape for both handlers
RiskProfiles(result) ==
    IF result.by = "riskRouteNested"
        THEN [ i \in 1..Len(result.value.riskMetrics) |->
                 LET e == result.value.riskMetrics[i]
                 IN  [ currentRatio |-> e.currentRatio,
                       debtToEquity |-> e.debtToEquity,
                       debtToAssets |-> e.debtToAssets,
                       liquidityRisk |-> e.liquidityRisk,
                       solvencyRisk |-> e.solvencyRisk,
                       operationalRisk |-> e.assetRisk,
                       overallRisk |-> e.overallRisk ] ]
        ELSE LET e == result.value.riskMetrics
             IN  << [ currentRatio |-> e.liquidityRisk.currentRatio,
                      debtToEquity |-> e.solvencyRisk.debtToEquityRatio,
                      debtToAssets |-> e.solvencyRisk.debtToAssetRatio,
                      liquidityRisk |-> e.liquidityRisk.riskLevel,
                      solvencyRisk |-> e.solvencyRisk.riskLevel,
                      operationalRisk |->
                          IF "riskLevel" \in DOMAIN e.operationalRisk
                              THEN e.operationalRisk.riskLevel ELSE NoLevel,
                      overallRisk |->
                          IF "overallRisk" \in DOMAIN result.value
                              THEN result.value.overallRisk
                          ELSE IF "overallRisk" \in DOMAIN e THEN e.overallRisk
                          ELSE NoLevel ] >>

ReportedProfiles ==
    IF mode = "risk" /\ riskResult # NoValue /\ riskResult.value.status = 200
        THEN {RiskProfiles(riskResult)[i] : i \in 1..Len(RiskProfiles(riskResult))}
        ELSE {}

\* x < n/m and x > n/m as the table reads them (false when x is not a number)
Below(x, n, m) == ~IsNaN(x) /\ (IF x.d = 0 THEN x.n < 0 ELSE x.n * m < n * x.d)

Above(x, n, m) == ~IsNaN(x) /\ (IF x.d = 0 THEN x.n > 0 ELSE x.n * m > n * x.d)

TableLiquidity(currentRatio) ==
    IF Below(currentRatio, 1, 1) THEN "High"
    ELSE IF Below(currentRatio, 3, 2) THEN "Medium" ELSE "Low"

TableSolvency(debtToEquity) ==
    IF Above(debtToEquity, 1, 1) THEN "High"
    ELSE IF Above(debtToEquity, 1, 2) THEN "Medium" ELSE "Low"

TableOperational(debtToAssets) ==
    IF Above(debtToAssets, 3, 5) THEN "High"
    ELSE IF Above(debtToAssets, 2, 5) THEN "Medium" ELSE "Low"

FollowsTable(p) ==
    /\ p.liquidityRisk = TableLiquidity(p.currentRatio)
    /\ p.solvencyRisk = TableSolvency(p.debtToEquity)
    /\ p.operationalRisk = TableOperational(p.debtToAssets)

\* C14: every reported risk profile has the three levels the fixed table gives
\* for its reported ratios: liquidity High below 1, Medium below 1.5; solvency
\* High above 1, Medium above 0.5; operational/asset High above 0.6, Medium
\* above 0.4; otherwise Low.  Ratios 0.8, 1.5, 0.7 are High three times.
C14_LevelsFollowTable == \A p \in ReportedProfiles : FollowsTable(p)

\* the handler that reads extractedData.balanceSheet does follow the table
C14_NestedRouteFollowsTable ==
    (mode = "risk" /\ riskResult # NoValue /\ riskResult.by = "riskRouteNested")
        => \A p \in ReportedProfiles : FollowsTable(p)

\* the scenario of the specification, reported by the nested handler
C14_ScenarioReached ==
    \E p \in ReportedProfiles :
        /\ p.currentRatio = Norm(4, 5) /\ p.debtToEquity = Norm(3, 2)
        /\ p.debtToAssets = Norm(7, 10)
        /\ p.liquidityRisk = "High" /\ p.solvencyRisk = "High" /\ p.operationalRisk = "High"

OverallOf(a, b, c) ==
    IF Cardinality({i \in 1..3 : <<a, b, c>>[i] = "High"}) >= 2 THEN "High"
    ELSE IF Cardinality({i \in 1..3 : <<a, b, c>>[i] = "Medium"}) >= 2 THEN "Medium"
    ELSE "Low"

\* C15: every risk assessment result carries an overallRisk in {Low, Medium,
\* High}: High when at least two dimensions are High, else Medium when at
\* least two are Medium, else Low.
C15_OverallRiskByCount ==
    \A p \in ReportedProfiles :
        /\ p.overallRisk \in RiskLevels
        /\ p.overallRisk = OverallOf(p.liquidityRisk, p.solvencyRisk, p.operationalRisk)

\* the nested handler aggregates as stated
C15_NestedRouteOverallByCount ==
    (mode = "risk" /\ riskResult # NoValue /\ riskResult.by = "riskRouteNested")
        => \A p \in ReportedProfiles :
               p.overallRisk = OverallOf(p.liquidityRisk, p.solvencyRisk, p.operationalRisk)

(***************************************************************************)
(* Compound annual growth rates.                                           *)
(***************************************************************************)
CagrFields == {"assets", "liabilities", "equity"}

CagrSource(field) ==
    CASE field = "assets" -> "totalAssets"
      [] field = "liabilities" -> "totalLiabilities"
      [] field = "equity" -> "totalEquity"

GrowthReported == mode = "growth" /\ growthResult # NoValue /\ growthResult.status = 200

\* the first (oldest) and last (newest) value of a field in the span
FirstValue(field) == growthSheets[Len(growthSheets)].extractedData[CagrSource(field)]

LastValue(field) == growthSheets[1].extractedData[CagrSource(field)]

\* x^e for a finite number x
NumPow(x, e) == Norm(IntPow(x.n, e), IntPow(x.d, e))

\* (1 + c)^e = ratio, for c a number or a number located between two numbers
SolvesCompound(c, e, ratio) ==
    IF c.k = "between"
        THEN /\ JsGt(ratio, NumPow(JsAdd(c.lo, Num(1)), e))
             /\ JsGt(NumPow(JsAdd(c.hi, Num(1)), e), ratio)
        ELSE IsFinite(c) /\ NumPow(JsAdd(c, Num(1)), e) = ratio

\* whenever lastValue / firstValue is a number that is not negative, the
\* reported rate c has (1 + c)^(n-1) = lastValue / firstValue
CagrSolvesCompound ==
    GrowthReported =>
        \A f \in CagrFields :
            LET ratio == JsDiv(Num(LastValue(f)), Num(FirstValue(f)))
            IN  (IsFinite(ratio) /\ ratio.n >= 0)
                    => SolvesCompound(growthResult.cagr[f], Len(growthSheets) - 1, ratio)

\* totalAssets 1000000 (2021), 1100000 (2022), 1331000 (2023)
ScenarioSpan ==
    /\ GrowthReported
    /\ Len(growthSheets) = 3
    /\ growthSheets[3].extractedData.totalAssets = 1000000
    /\ growthSheets[2].extractedData.totalAssets = 1100000
    /\ growthSheets[1].extractedData.totalAssets = 1331000

\* C16 as stated: the reported rate solves (1 + c)^(n-1) = lastValue / firstValue,
\* and for totalAssets 1000000, 1100000, 1331000 it is 0.15
C16_CagrScenarioIsFifteenPercent ==
    /\ CagrSolvesCompound
    /\ ScenarioSpan => growthResult.cagr.assets = Norm(15, 100)

\* C16 (amended): the reported rate solves (1 + c)^(n-1) = lastValue / firstValue,
\* and for totalAssets 1000000, 1100000, 1331000 it is the root of
\* (1 + c)^2 = 1.331, about 0.1537, which is not 0.15
C16_CagrSolvesCompound ==
    /\ CagrSolvesCompound
    /\ ScenarioSpan =>
          /\ growthResult.cagr.assets # Norm(15, 100)
          /\ SolvesCompound(growthResult.cagr.assets, 2, Norm(1331, 1000))
          /\ JsGt(Norm(1537, 10000), growthResult.cagr.assets.lo)
          /\ JsGt(growthResult.cagr.assets.hi, Norm(1537, 10000))

C16_Witness ==
    /\ ScenarioSpan
    /\ growthResult.cagr.assets.k = "between"
    /\ growthResult.cagr.liabilities = Norm(1, 2)

\* C17: a field whose first value is <= 0 has its rate reported as undefined,
\* never as Infinity, NaN or a number
C17_NonPositiveFirstValueUndefined ==
    GrowthReported =>
        \A f \in CagrFields :
            FirstValue(f) <= 0 => growthResult.cagr[f] = NoValue

(***************************************************************************)
(* The shape of the trend result.                                          *)
(***************************************************************************)
TrendComputed(by) == mode = "trend" /\ trends # NoValue /\ trends.by = by

OrdersOf(n) == {f \in [1..n -> 1..n] : \A i, j \in 1..n : f[i] = f[j] => i = j}

\* the orders of the supplied records that run from the oldest to the newest
ChronologicalOrders ==
    { f \in OrdersOf(Len(sheets)) :
        \A i \in 1..(Len(sheets) - 1) : sheets[f[i]].year <= sheets[f[i + 1]].year }

\* the properties of the trends object: one per distinct key
TrendKeys == {trends.value[i].key : i \in 1..Len(trends.value)}

DistinctYears == \A i, j \in 1..Len(sheets) : sheets[i].year = sheets[j].year => i = j

\* the entries pair, oldest pair first, the adjacent records of a
\* chronological order, under the key <<previous year, current year>>
PairsChronologically ==
    /\ Len(trends.value) = Len(sheets) - 1
    /\ \E f \in ChronologicalOrders :
           \A i \in 1..(Len(sheets) - 1) :
               /\ trends.value[i].key = << sheets[f[i]].year, sheets[f[i + 1]].year >>
               /\ trends.value[i].year = sheets[f[i + 1]].year

\* the same for the handler's array, which runs from the newest pair to the oldest
PairsNewestFirst ==
    /\ Len(trends.value) = Len(sheets) - 1
    /\ \E f \in ChronologicalOrders :
           \A i \in 1..(Len(sheets) - 1) :
               /\ trends.value[i].year = sheets[f[Len(sheets) - i + 1]].year
               /\ trends.value[i].previousYear = sheets[f[Len(sheets) - i]].year

EntriesHold(fields) ==
    \A i \in 1..Len(trends.value) : fields \subseteq DOMAIN trends.value[i]

\* C18 as stated: n >= 2 records give exactly n-1 entries, keyed by the adjacent
\* pairs in chronological order, each holding the growth of revenue,
\* totalAssets, totalEquity and totalLiabilities; fewer give an empty result
C18_TrendEntriesHoldFourGrowths ==
    /\ TrendComputed("calculateTrendAnalysis") =>
          IF Len(sheets) < 2 THEN trends.value = << >>
          ELSE /\ PairsChronologically
               /\ Cardinality(TrendKeys) = Len(sheets) - 1
               /\ EntriesHold({"revenueGrowth", "assetGrowth", "equityGrowth",
                               "liabilityGrowth"})
    /\ TrendComputed("growthRoute") =>
          IF Len(sheets) < 2 THEN trends.value = << >>
          ELSE /\ \A i \in 1..Len(trends.value) : "key" \in DOMAIN trends.value[i]
               /\ Len(trends.value) = Len(sheets) - 1
               /\ EntriesHold({"revenueGrowth", "assetGrowth", "equityGrowth",
                               "liabilityGrowth"})

\* C18 (amended): calculateTrendAnalysis gives one entry per adjacent pair in
\* chronological order, keyed by the pair (exactly n-1 entries when the years
\* are distinct), each holding revenueGrowth, assetGrowth and equityGrowth and
\* no liability growth; the growth handler gives n-1 entries from the newest
\* pair to the oldest, each naming year and previousYear and holding
\* assetGrowth, liabilityGrowth and equityGrowth and no revenue growth; fewer
\* than 2 records give an empty result
C18_TrendEntriesPerAdjacentPair ==
    /\ TrendComputed("calculateTrendAnalysis") =>
          IF Len(sheets) < 2 THEN trends.value = << >>
          ELSE /\ PairsChronologically
               /\ DistinctYears => Cardinality(TrendKeys) = Len(sheets) - 1
               /\ EntriesHold({"revenueGrowth", "assetGrowth", "equityGrowth"})
               /\ \A i \in 1..Len(trends.value) :
                      "liabilityGrowth" \notin DOMAIN trends.value[i]
    /\ TrendComputed("growthRoute") =>
          IF Len(sheets) < 2 THEN trends.value = << >>
          ELSE /\ PairsNewestFirst
               /\ EntriesHold({"assetGrowth", "liabilityGrowth", "equityGrowth"})
               /\ \A i \in 1..Len(trends.value) :
                      "revenueGrowth" \notin DOMAIN trends.value[i]
    /\ (mode = "growth" /\ growthResult # NoValue /\ Len(growthSheets) < 2)
          => growthResult.status = 400

C18_Witness ==
    /\ TrendComputed("calculateTrendAnalysis")
    /\ Len(sheets) = 3
    /\ trends.value[1].key = <<2021, 2022>>
    /\ trends.value[2].key = <<2022, 2023>>
    /\ IsFinite(trends.value[1].revenueGrowth)
    /\ IsFinite(trends.value[2].assetGrowth)

(***************************************************************************)
(* The Field Extractor.                                                    *)
(***************************************************************************)
Extracted == mode = "extract" /\ extractResult # NoValue

\* the items of the extractor's input whose label is one the field accepts
Occurrences(key) ==
    { i \in 1..Len(extractResult.text) :
        PatternAlternatives(key) \cap EndingsOf(extractResult.text[i].label) # {} }

FirstOccurrence(key) == CHOOSE i \in Occurrences(key) : \A j \in Occurrences(key) : i <= j

\* the digits of a numeral, its separators removed
DigitsOf(numeral) == SelectSeq(numeral, LAMBDA c : c \in DigitSet)

\* the number a numeral without a decimal point denotes is the value
Denotes(numeral, value) ==
    /\ IsFinite(value)
    /\ Len(DigitsOf(numeral)) <= 9 => value = Num(IntegerOf(DigitsOf(numeral)))

HasPoint(numeral) == \E i \in 1..Len(numeral) : numeral[i] = "."

\* C19: for every text the extractor gives each of its fields a value, every
\* value is a finite number that is not NaN, and a field whose label does not
\* occur in the text is exactly 0
C19_ExtractorTotalAndFinite ==
    Extracted =>
        /\ DOMAIN extractResult.value = PatternKeySet
        /\ \A key \in PatternKeySet :
               /\ IsFinite(extractResult.value[key])
               /\ Occurrences(key) = {} => extractResult.value[key] = Num(0)

\* what holds of it: a value for each field, never NaN, 0 for an absent label
C19_ExtractorTotalAndNotNaN ==
    Extracted =>
        /\ DOMAIN extractResult.value = PatternKeySet
        /\ \A key \in PatternKeySet :
               /\ ~IsNaN(extractResult.value[key])
               /\ Occurrences(key) = {} => extractResult.value[key] = Num(0)

\* C20: each field's value is the number that follows the first occurrence of
\* one of its labels, with the thousands separators removed ("Total Assets:
\* rupee sign 1,234,500" gives 1234500); later occurrences never override it
C20_FirstOccurrenceWins ==
    Extracted =>
        \A key \in PatternKeySet :
            (Occurrences(key) # {}
                /\ ~HasPoint(extractResult.text[FirstOccurrence(key)].numeral))
              => Denotes(extractResult.text[FirstOccurrence(key)].numeral,
                         extractResult.value[key])

\* what holds of it: a first occurrence whose numeral has a digit and is within
\* the range of doubles gives the value, whatever follows it
C20_FirstOccurrenceInRangeWins ==
    Extracted =>
        \A key \in PatternKeySet :
            (Occurrences(key) # {}
                /\ ~HasPoint(extractResult.text[FirstOccurrence(key)].numeral)
                /\ Len(DigitsOf(extractResult.text[FirstOccurrence(key)].numeral))
                       \in 1..9)
              => extractResult.value[key] =
                     Num(IntegerOf(DigitsOf(extractResult.text[FirstOccurrence(key)].numeral)))

\* the scenario of the specification, with a later occurrence that is ignored
C20_ScenarioReached ==
    /\ Extracted
    /\ Len(extractResult.text) = 2
    /\ extractResult.text[1].numeral = << "1", ",", "2", "3", "4", ",", "5", "0", "0" >>
    /\ extractResult.text[2] = Item("Total Assets", 500)
    /\ extractResult.value.totalAssets = Num(1234500)

(***************************************************************************)
(* Overall risk against the dimension levels.                              *)
(***************************************************************************)
Severity(level) == CASE level = "Low" -> 0 [] level = "Medium" -> 1 [] level = "High" -> 2

\* every dimension of q is at least as severe as the same dimension of p
AtLeastAsSevere(p, q) ==
    /\ Severity(p.liquidityRisk) <= Severity(q.liquidityRisk)
    /\ Severity(p.solvencyRisk) <= Severity(q.solvencyRisk)
    /\ Severity(p.operationalRisk) <= Severity(q.operationalRisk)

NestedProfiles ==
    IF mode = "risk" /\ riskResult # NoValue /\ riskResult.by = "riskRouteNested"
        THEN ReportedProfiles ELSE {}

C30_AnalysisLeavesInputUnchanged ==
    [][(CallCalculateTrendAnalysis \/ CallGenerateComparativeAnalysis)
           => sheets' = sheets]_vars

\* the analysis an upload obtained from analyzeFinancialData, when it carries
\* advancedMetrics
UploadMetrics ==
    IF req.op = "upload" /\ req.analysed /\ "advancedMetrics" \in DOMAIN req.analysis
        THEN {req.analysis.advancedMetrics}
    ELSE {}

\* C24: the metrics attached to an uploaded document's analysis are computed
\* from that document's extracted figures: with extracted currentAssets a,
\* currentLiabilities l > 0, totalLiabilities t and totalEquity e > 0, the
\* advancedMetrics returned by analyzeFinancialData have currentRatio a / l
\* and debtToEquity t / e.
C24_UploadMetricsFromExtraction ==
    \A m \in UploadMetrics :
        LET x == req.pdfData.extractedData
        IN  (x.currentLiabilities > 0 /\ x.totalEquity > 0)
                => /\ m.currentRatio = Norm(x.currentAssets, x.currentLiabilities)
                   /\ m.debtToEquity = Norm(x.totalLiabilities, x.totalEquity)

\* the paths calculateAdvancedRatios reads in the data it is given
MetricsReads ==
    { << "balanceSheet", f >> : f \in BalanceSheetFields }
    \cup { << "incomeStatement", f >> : f \in IncomeStatementFields }

\* data holds a value at the path section.field
Provides(data, path) ==
    /\ path[1] \in DOMAIN data
    /\ path[2] \in DOMAIN data[path[1]]

\* an upload that processed its file and stored its record
UploadStored == ProcessedUpload /\ req.saved /\ RecordStored

\* C21: the field-name vocabulary is one contract across extraction,
\* persistence and metrics: every field name the Field Extractor produced is a
\* field name of the stored record's structured data, and every balance-sheet
\* field the Metrics Engine reads is provided at that path by the extracted
\* data and by the stored record.
C21_FieldVocabularyIsOneContract ==
    UploadStored =>
        /\ DOMAIN req.pdfData.extractedData \subseteq DOMAIN StoredRecord.extractedData
        /\ \A path \in MetricsReads :
               path[1] = "balanceSheet" =>
                   /\ Provides(req.pdfData.extractedData, path)
                   /\ Provides(StoredRecord.extractedData, path)

\* a read endpoint answered a caller about a company the caller is not
\* assigned to
OutsiderRead ==
    /\ req.op = "read"
    /\ response.company # ""
    /\ response.caller.role # "Group Executive"
    /\ response.caller.company # response.company
    /\ response.caller.parentCompany # response.company

\* C22: users can only access their assigned companies: a caller who is not a
\* Group Executive and whose company and parentCompany both differ from the
\* target company receives a 403 response and none of that company's data.
C22_OnlyAssignedCompanies ==
    OutsiderRead => (response.status = 403 /\ response.data = << >>)

\* a reprocess request that stored the Processing status and has responded
ReprocessResponded == req.op = "reprocess" /\ req.pc = "done" /\ req.saved

\* C25: a reprocess request moves processingStatus to Processing and, by the
\* time it has responded, the persisted status is Completed with the analysis
\* replaced, or Failed with processingErrors set: no completed reprocess
\* request leaves the persisted status at Processing.
C25_ReprocessEndsCompletedOrFailed ==
    ReprocessResponded =>
        LET doc == store[req.balanceSheet.id]
        IN  \/ /\ doc.processingStatus = "Completed"
               /\ req.analysed
               /\ doc.analysis = AnalysisOf(req.analysis)
            \/ /\ doc.processingStatus = "Failed"
               /\ doc.processingErrors # << >>

\* the record the upload of uploader p produces when it runs alone, from its
\* inputs and from how its saves and its analysis call ended
AloneStored(p) ==
    LET u == uploads[p]
        pdfData == processBalanceSheetPDF(u.file).value
        first == UploadedDocument(DocumentId(p), u.companyId, u.financialYear, pdfData)
    IN  IF ~u.saved THEN NoValue
        ELSE IF u.resaved
            THEN [first EXCEPT !.analysis =
                                   AnalysisOf(Analyze(pdfData.extractedData, u.ai).value)]
        ELSE first

StoredCompanies == { id \in 1..Len(companies) : CompanyExists(companies, id) }

\* the number of times c occurs in the subsidiaries of p
OccurrencesIn(c, p) ==
    Cardinality({ i \in 1..Len(companies[p].subsidiaries) : companies[p].subsidiaries[i] = c })

\* C27: after any sequence of company create, update and delete operations the
\* two sides of the hierarchy agree: c.parentCompany = p if and only if c occurs
\* exactly once in p.subsidiaries, and every parentCompany and every
\* subsidiaries entry refers to an existing company.
C27_HierarchySidesAgree ==
    mode = "companies" =>
        /\ \A c \in StoredCompanies : \A p \in StoredCompanies :
               (companies[c].parentCompany = p) <=> (OccurrencesIn(c, p) = 1)
        /\ \A c \in StoredCompanies :
               /\ companies[c].parentCompany # Null
                      => companies[c].parentCompany \in StoredCompanies
               /\ \A i \in 1..Len(companies[c].subsidiaries) :
                      companies[c].subsidiaries[i] \in StoredCompanies

\* the companies reached from c along subsidiaries entries, in at most n steps
RECURSIVE ReachedWithin(_, _)
ReachedWithin(c, n) ==
    IF n = 0 THEN {}
    ELSE LET direct == { s \in StoredCompanies :
                           \E i \in 1..Len(companies[c].subsidiaries) :
                               companies[c].subsidiaries[i] = s }
         IN  direct \cup UNION { ReachedWithin(s, n - 1) : s \in direct }

OwnAncestor(c) == c \in ReachedWithin(c, Len(companies))

\* C28: getAllSubsidiaries and getHierarchyTree terminate for every company in
\* every state reachable through company create, update and delete: no
\* sequence of these operations makes a company its own ancestor in the
\* subsidiaries relation.
C28_HierarchyWalksTerminate ==
    mode = "companies" =>
        /\ \A c \in StoredCompanies : ~OwnAncestor(c)
        /\ (hierarchy # NoValue /\ hierarchy.op \in {"getAllSubsidiaries", "getHierarchyTree"})
               => hierarchy.terminates

\* C29: for any set of send-message requests on one chat, sequential or
\* concurrent, the stored messages alternate user, assistant starting with
\* user, each reply directly follows the message it answers, and the
\* userMessage and aiResponse returned to a caller are that caller's own
\* message and its reply.
C29_TranscriptAlternates ==
    mode = "chat" =>
        /\ \A i \in 1..Len(chat.messages) :
               chat.messages[i].role = (IF i % 2 = 1 THEN "user" ELSE "assistant")
        /\ \A i \in 1..Len(chat.messages) :
               chat.messages[i].role = "assistant" =>
                   /\ i > 1
                   /\ chat.messages[i - 1] = Message("user", chat.messages[i].content)
        /\ \A s \in Senders :
               (senders[s].pc = "done" /\ senders[s].response.status = 200) =>
                   /\ senders[s].response.userMessage = Message("user", s)
                   /\ senders[s].response.aiResponse = Message("assistant", s)

============================================================================
